---- MODULE Spec2Model ----
(***************************************************************************)
(* Model of qmxgraph's asynchronous call bridge:                           *)
(*   - CallbackBarrier and its StoredResult slots (callback_blocker.py)    *)
(*   - CallbackBlocker, its nested event loop and timer                    *)
(*   - QmxGraphApi.call_api / call_api_debug (api.py)                      *)
(* Objects are records; every method is an operator from a "world" (the    *)
(* objects a call can touch, plus what the call raised and returned) to    *)
(* the world after the call.  Actions apply one method call, or dispatch   *)
(* one event of the Qt event loop.                                         *)
(***************************************************************************)
EXTENDS Integers, Sequences, FiniteSets, TLC

VARIABLES
    barrier,      \* the CallbackBarrier object
    blocker,      \* the CallbackBlocker object
    stub_calls,   \* log of the invocations of callbacks (mock call records)
    raised,       \* exception that left the last operation (NoError if it returned)
    returned,     \* value returned by the last operation
    last_op,      \* the last operation and its inputs
    hist,         \* history of the operations applied to the barrier
    first_value,  \* key -> value handed to the slot's first invocation
    exceptions,   \* exceptions raised inside event-loop handlers (qtbot.capture_exceptions)
    debug,        \* qmxgraph.debug flag
    loaded,       \* is the graph page loaded and running in the engine
    js_queue,     \* evaluations submitted to the engine, result not yet delivered
    calls,        \* what each call_api call did and what came of it
    turn,         \* number of event-loop dispatches so far
    widget,       \* the QmxGraph widget: its bridges' connections and pending timers
    nested        \* a signal handler that calls the api and waits, and the code around it

vars == <<barrier, blocker, stub_calls, raised, returned, last_op, hist,
          first_value, exceptions, debug, loaded, js_queue, calls, turn, widget,
          nested>>

(***************************************************************************)
(* Bounds of the exploration.                                              *)
(***************************************************************************)
MaxPending == 3
MaxExtraCalls == 1
MaxRegistered == 2
MaxCalls == 2
MaxBlockerCalls == 2
MaxEvents == 2
MaxLoads == 2

(***************************************************************************)
(* Values.                                                                 *)
(***************************************************************************)
None == "None"
Keys == {"foo", "bar"}
Values == {None, "7", "blue"}
Stubs == {"stub1", "stub2"}
DEFAULT_TIMEOUT == "1000"
Timeouts == {None, "0", DEFAULT_TIMEOUT}
Msgs == {None, "", "diag"}

\* An attribute that holds either Python's None or a tuple.
Nothing == <<>>

Some(x) == <<x>>

Range(seq) == {seq[i] : i \in DOMAIN seq}

\* An exception is the tuple of its type and the parts of its message.
NoError == <<>>

ErrCalledTwice == <<"CallbackCalledTwiceError", "Callback called twice">>
ErrIncrementAfterWait == <<"RuntimeError", "can't increment barrier after wait">>
\* The message of the code puts n between backquotes, which a string of
\* this language cannot hold.
ErrIncrementValue == <<"ValueError", "n should be greater that 0 (zero)">>
ErrWaitCrossed == <<"RuntimeError", "can't wait on crossed barrier">>
ErrAlreadyWaiting == <<"RuntimeError", "already waiting on barrier">>
ErrCalledTooOften == <<"RuntimeError", "barrier already called more times than expected">>
ErrCallAfterCrossing == <<"RuntimeError", "unexpected call after crossing barrier">>
ErrKeyInUse == <<"ValueError", "stored result \"key\" already in use (\"key\"s should be unique)">>
ErrDoubleWrite == <<"RuntimeError", "stored result can store only one value">>
ErrKeyError == <<"KeyError">>

(***************************************************************************)
(* Worlds.                                                                 *)
(***************************************************************************)
World == [bar |-> barrier, cb |-> blocker, stub_calls |-> stub_calls,
          js_queue |-> js_queue, raised |-> NoError, returned |-> None,
          wid |-> widget, loaded |-> loaded, nested |-> nested]

Raise(w, err) == [w EXCEPT !.raised = err]

Return(w, value) == [w EXCEPT !.returned = value]

(***************************************************************************)
(* CallbackBlocker.                                                        *)
(***************************************************************************)
NewBlocker(timeout, msg) ==
    [timeout |-> timeout, args |-> Nothing, msg |-> msg, kwargs |-> Nothing,
     called |-> FALSE, loop |-> "idle",
     timer |-> IF timeout = None THEN None ELSE "stopped",
     connections |-> 0]

\* silent_disconnect on a signal with n connections to the slot: an error of
\* disconnecting a slot that is not connected is suppressed.
silent_disconnect(n) == IF n = 0 THEN 0 ELSE n - 1

Cleanup(cb) ==
    IF cb.timer # None
    THEN [cb EXCEPT !.connections = silent_disconnect(@), !.timer = None]
    ELSE cb

\* QEventLoop.quit(): ends a running exec_(); no effect on a loop that is not running.
LoopQuit(cb) == IF cb.loop = "running" THEN [cb EXCEPT !.loop = "quit"] ELSE cb

\* Mutant: an invocation that comes after the timer was cleaned up is refused.
BlockerCall_RefusesLateCall(w, args) ==
    IF w.cb.called \/ (w.cb.timeout # None /\ w.cb.timer = None)
    THEN Raise(w, ErrCalledTwice)
    ELSE [w EXCEPT !.cb = LoopQuit(Cleanup(
             [w.cb EXCEPT !.args = Some(args), !.kwargs = Some(<<>>), !.called = TRUE]))]

\* Mutant: a repeated invocation is accepted and overwrites the arguments.
BlockerCall_Unguarded(w, args) ==
    [w EXCEPT !.cb = LoopQuit(Cleanup(
        [w.cb EXCEPT !.args = Some(args), !.kwargs = Some(<<>>), !.called = TRUE]))]

BlockerCall(w, args) ==
    IF w.cb.called
    THEN Raise(w, ErrCalledTwice)
    ELSE [w EXCEPT !.cb = LoopQuit(Cleanup(
             [w.cb EXCEPT !.args = Some(args), !.kwargs = Some(<<>>), !.called = TRUE]))]

\* if self.msg: a message that is None or empty is left out.
Truthy(msg) == msg # None /\ msg # ""

TimeoutMessage(cb) ==
    <<"Callback wasn't called after ", cb.timeout, "ms.">>
        \o (IF Truthy(cb.msg) THEN <<"\n> ", cb.msg>> ELSE <<>>)

\* Mutant: wait() enters the event loop whether or not the callback was called.
BlockerWaitEnter_AlwaysEnters(w) ==
    [w EXCEPT !.cb.connections = IF w.cb.timer # None THEN @ + 1 ELSE @,
              !.cb.timer = IF w.cb.timer # None THEN "active" ELSE @,
              !.cb.loop = "running"]

\* wait() up to and including the entry into self._loop.exec_().
BlockerWaitEnter(w) ==
    IF w.cb.called
    THEN w
    ELSE [w EXCEPT !.cb.connections = IF w.cb.timer # None THEN @ + 1 ELSE @,
                   !.cb.timer = IF w.cb.timer # None THEN "active" ELSE @,
                   !.cb.loop = "running"]

\* Mutant: wait() returns silently after a timeout.
BlockerWaitResume_NeverRaises(w) == [w EXCEPT !.cb.loop = "idle"]

\* wait() from the return of self._loop.exec_() on.
BlockerWaitResume(w) ==
    LET w1 == [w EXCEPT !.cb.loop = "idle"]
    IN  IF ~w1.cb.called
        THEN Raise(w1, <<"TimeoutError">> \o TimeoutMessage(w1.cb))
        ELSE w1

\* The exception that left the body of a with statement (NoError: none).
BodyError == <<"ValueError", "raised in the with block">>

ExitValues == {NoError, BodyError}

\* The with statement after __exit__ returned None: the exception of the
\* body goes on; an exception raised by __exit__ itself takes its place.
Propagate(w, value) ==
    IF w.raised = NoError /\ value # NoError THEN Raise(w, value) ELSE w

\* Mutant: the scope waits for the callback also after the body raised.
BlockerExit_AlwaysWaits(w, value) == BlockerWaitEnter(w)

\* CallbackBlocker.__exit__, up to the entry into the event loop if it waits.
BlockerExit(w, value) ==
    IF value = NoError THEN BlockerWaitEnter(w) ELSE w

QuitLoopByTimeout(w) == [w EXCEPT !.cb = LoopQuit(Cleanup(w.cb))]

(***************************************************************************)
(* Callables handed to the barrier as continuations.                       *)
(***************************************************************************)
\* Every invocation of a callable is logged on entry (for a stub the log is
\* all it does, as unittest.mock does).
LogCall(w, target, args) ==
    [w EXCEPT !.stub_calls = Append(@, [target |-> target, args |-> args])]

Invoke(w, to_call, args) ==
    IF to_call = "cb"
    THEN BlockerCall(LogCall(w, to_call, args), args)
    ELSE LogCall(w, to_call, args)

(***************************************************************************)
(* CallbackBarrier.                                                        *)
(***************************************************************************)
NoSlots == [k \in {} |-> None]

NewBarrier ==
    [waiting_on_barrier |-> FALSE, crossed |-> FALSE, calls_pending |-> 0,
     stored_results |-> NoSlots, to_execute_after_barrier |-> <<>>]

RECURSIVE RunContinuations(_, _)
RunContinuations(w, to_execute) ==
    IF to_execute = <<>> \/ w.raised # NoError
    THEN w
    ELSE LET e == Head(to_execute)
             args == IF e.pass_self THEN <<"barrier">> ELSE <<>>
         IN  RunContinuations(Invoke(w, e.to_call, args), Tail(to_execute))

\* Mutant: the barrier stays flagged as waiting after it crossed.
CrossBarrier_StaysWaiting(w) ==
    RunContinuations(
        [w EXCEPT !.bar.crossed = TRUE,
                  !.bar.to_execute_after_barrier = <<>>],
        w.bar.to_execute_after_barrier)

\* Mutant: the list of continuations is kept after they ran.
CrossBarrier_KeepsList(w) ==
    RunContinuations(
        [w EXCEPT !.bar.crossed = TRUE,
                  !.bar.waiting_on_barrier = FALSE],
        w.bar.to_execute_after_barrier)

CrossBarrier(w) ==
    RunContinuations(
        [w EXCEPT !.bar.crossed = TRUE,
                  !.bar.waiting_on_barrier = FALSE,
                  !.bar.to_execute_after_barrier = <<>>],
        w.bar.to_execute_after_barrier)

\* Mutant: a new continuation goes to the front of the list.
Register_Prepends(w, to_call, pass_self) ==
    LET w1 == [w EXCEPT !.bar.to_execute_after_barrier =
                            <<[to_call |-> to_call, pass_self |-> pass_self]>> \o @]
    IN  IF w1.bar.crossed THEN CrossBarrier(w1) ELSE w1

Register(w, to_call, pass_self) ==
    LET w1 == [w EXCEPT !.bar.to_execute_after_barrier =
                            Append(@, [to_call |-> to_call, pass_self |-> pass_self])]
    IN  IF w1.bar.crossed THEN CrossBarrier(w1) ELSE w1

\* Mutant: increments are accepted in every state of the barrier.
Increment_InAnyState(w, n) ==
    IF n < 1
    THEN Raise(w, ErrIncrementValue)
    ELSE [w EXCEPT !.bar.calls_pending = @ + n]

Increment(w, n) ==
    IF w.bar.waiting_on_barrier \/ w.bar.crossed
    THEN Raise(w, ErrIncrementAfterWait)
    ELSE IF n < 1
    THEN Raise(w, ErrIncrementValue)
    ELSE [w EXCEPT !.bar.calls_pending = @ + n]

\* repr() of a str key.
Repr(key) == <<"'", key, "'">>

NewStoredResult(key) ==
    [parent |-> "barrier", key |-> Repr(key), value |-> None, called |-> FALSE]

\* Mutant: a key that is in use gets a new slot.
CreateStoredResultCallback_Replaces(w, key) ==
    LET w1 == Increment(w, 1)
    IN  IF w1.raised # NoError
        THEN w1
        ELSE Return([w1 EXCEPT !.bar.stored_results =
                         [k \in DOMAIN @ \cup {key} |->
                             IF k = key THEN NewStoredResult(key) ELSE @[k]]],
                    key)

\* Mutant: a new slot is not counted as a pending call.
CreateStoredResultCallback_NotCounted(w, key) ==
    IF key \in DOMAIN w.bar.stored_results
    THEN Raise(w, ErrKeyInUse)
    ELSE IF w.bar.waiting_on_barrier \/ w.bar.crossed
    THEN Raise(w, ErrIncrementAfterWait)
    ELSE Return([w EXCEPT !.bar.stored_results =
                     [k \in DOMAIN @ \cup {key} |->
                         IF k = key THEN NewStoredResult(key) ELSE @[k]]],
                key)

CreateStoredResultCallback(w, key) ==
    IF key \in DOMAIN w.bar.stored_results
    THEN Raise(w, ErrKeyInUse)
    ELSE LET w1 == Increment(w, 1)
         IN  IF w1.raised # NoError
             THEN w1
             ELSE Return([w1 EXCEPT !.bar.stored_results =
                              [k \in DOMAIN @ \cup {key} |->
                                  IF k = key THEN NewStoredResult(key) ELSE @[k]]],
                         key)

GetItem(w, item) ==
    IF item \in DOMAIN w.bar.stored_results
    THEN Return(w, item)
    ELSE CreateStoredResultCallback(w, item)

StoredResultValue(w, key) ==
    IF w.bar.stored_results[key].called
    THEN Return(w, w.bar.stored_results[key].value)
    ELSE Raise(w, <<"AssertionError", "stored results key: ">> \o w.bar.stored_results[key].key)

GetResult(w, key) ==
    IF key \in DOMAIN w.bar.stored_results
    THEN StoredResultValue(w, key)
    ELSE Raise(w, ErrKeyError)

\* Mutant: wait() is accepted in every state of the barrier.
BarrierWait_InAnyState(w) ==
    LET w1 == [w EXCEPT !.bar.waiting_on_barrier = TRUE]
    IN  IF w1.bar.calls_pending = 0 THEN CrossBarrier(w1) ELSE w1

\* Mutant: wait() never crosses, also when no call is pending.
BarrierWait_NeverCrosses(w) ==
    IF w.bar.crossed
    THEN Raise(w, ErrWaitCrossed)
    ELSE IF w.bar.waiting_on_barrier
    THEN Raise(w, ErrAlreadyWaiting)
    ELSE IF w.bar.calls_pending < 0
    THEN Raise(w, ErrCalledTooOften)
    ELSE [w EXCEPT !.bar.waiting_on_barrier = TRUE]

BarrierWait(w) ==
    IF w.bar.crossed
    THEN Raise(w, ErrWaitCrossed)
    ELSE IF w.bar.waiting_on_barrier
    THEN Raise(w, ErrAlreadyWaiting)
    ELSE IF w.bar.calls_pending < 0
    THEN Raise(w, ErrCalledTooOften)
    ELSE LET w1 == [w EXCEPT !.bar.waiting_on_barrier = TRUE]
         IN  IF w1.bar.calls_pending = 0 THEN CrossBarrier(w1) ELSE w1

\* Mutant: a crossed barrier goes on counting.
BarrierCall_CountsAfterCrossing(w) ==
    LET w1 == [w EXCEPT !.bar.calls_pending = @ - 1]
    IN  IF w1.bar.waiting_on_barrier /\ w1.bar.calls_pending = 0
        THEN CrossBarrier(w1)
        ELSE w1

\* Mutant: the scope does not wait after the body raised.
BarrierExit_OnlyWithoutException(w, value) ==
    IF value = NoError THEN BarrierWait(w) ELSE w

\* CallbackBarrier.__exit__.
BarrierExit(w, value) == BarrierWait(w)

\* Mutant: crosses as soon as the count reaches zero, wait() or not.
BarrierCall_CrossWithoutWait(w) ==
    IF w.bar.crossed
    THEN Raise(w, ErrCallAfterCrossing)
    ELSE LET w1 == [w EXCEPT !.bar.calls_pending = @ - 1]
         IN  IF w1.bar.calls_pending = 0 THEN CrossBarrier(w1) ELSE w1

BarrierCall(w) ==
    IF w.bar.crossed
    THEN Raise(w, ErrCallAfterCrossing)
    ELSE LET w1 == [w EXCEPT !.bar.calls_pending = @ - 1]
         IN  IF w1.bar.waiting_on_barrier /\ w1.bar.calls_pending = 0
             THEN CrossBarrier(w1)
             ELSE w1

\* Mutant: the value is handed to the barrier but not kept.
StoredResultCall_DropsValue(w, key, value) ==
    IF w.bar.stored_results[key].called
    THEN Raise(w, ErrDoubleWrite)
    ELSE LET w1 == BarrierCall([w EXCEPT !.bar.stored_results[key].called = TRUE])
         IN  IF w1.raised # NoError
             THEN w1
             ELSE [w1 EXCEPT !.bar.stored_results[key].parent = None]

\* Mutant: a slot accepts any number of writes.
StoredResultCall_Unguarded(w, key, value) ==
    LET w1 == BarrierCall([w EXCEPT !.bar.stored_results[key].called = TRUE,
                                    !.bar.stored_results[key].value = value])
    IN  IF w1.raised # NoError
        THEN w1
        ELSE [w1 EXCEPT !.bar.stored_results[key].parent = None]

StoredResultCall(w, key, value) ==
    IF w.bar.stored_results[key].called
    THEN Raise(w, ErrDoubleWrite)
    ELSE LET w1 == BarrierCall([w EXCEPT !.bar.stored_results[key].called = TRUE,
                                         !.bar.stored_results[key].value = value])
         IN  IF w1.raised # NoError
             THEN w1
             ELSE [w1 EXCEPT !.bar.stored_results[key].parent = None]

(***************************************************************************)
(* The embedded engine and the web view's eval_js.                         *)
(***************************************************************************)
\* The methods of the api that hand the page a handler: the function of the
\* page's api each calls, the signal of the bridge slot that serves the event,
\* and the variable under which the page knows that slot.  The first eight
\* are in the order of _connect_events_bridge.
HandlerMethods ==
    <<[method |-> "on_cells_added", fn |-> "onCellsAdded",
       signal |-> "on_cells_added",
       slot |-> "bridge_events_handler.cells_added_slot"],
      [method |-> "on_cells_removed", fn |-> "onCellsRemoved",
       signal |-> "on_cells_removed",
       slot |-> "bridge_events_handler.cells_removed_slot"],
      [method |-> "on_label_changed", fn |-> "onLabelChanged",
       signal |-> "on_label_changed",
       slot |-> "bridge_events_handler.label_changed_slot"],
      [method |-> "on_selection_changed", fn |-> "onSelectionChanged",
       signal |-> "on_selection_changed",
       slot |-> "bridge_events_handler.selection_changed_slot"],
      [method |-> "on_terminal_changed", fn |-> "onTerminalChanged",
       signal |-> "on_terminal_changed",
       slot |-> "bridge_events_handler.terminal_changed_slot"],
      [method |-> "on_terminal_with_port_changed", fn |-> "onTerminalWithPortChanged",
       signal |-> "on_terminal_with_port_changed",
       slot |-> "bridge_events_handler.terminal_with_port_changed_slot"],
      [method |-> "on_view_update", fn |-> "onViewUpdate",
       signal |-> "on_view_update",
       slot |-> "bridge_events_handler.view_update_slot"],
      [method |-> "on_cells_bounds_changed", fn |-> "onBoundsChanged",
       signal |-> "on_cells_bounds_changed",
       slot |-> "bridge_events_handler.cells_bounds_changed_slot"],
      [method |-> "set_double_click_handler", fn |-> "setDoubleClickHandler",
       signal |-> "on_double_click",
       slot |-> "bridge_double_click_handler.double_click_slot"],
      [method |-> "set_popup_menu_handler", fn |-> "setPopupMenuHandler",
       signal |-> "on_popup_menu",
       slot |-> "bridge_popup_menu_handler.popup_menu_slot"]>>

HandlerMethod(name) ==
    HandlerMethods[CHOOSE i \in DOMAIN HandlerMethods : HandlerMethods[i].method = name]

HandlerFunctions == {HandlerMethods[i].fn : i \in DOMAIN HandlerMethods}

Exports ==
    {"insertVertex", "getCellCount", "getCellBounds", "getZoomScale", "setEdgeTerminal",
     "resizeContainer"} \cup HandlerFunctions
Fns == {"insertVertex", "getCellCount", "BOOM"}
ArgLists == {<<>>, <<"10">>}

ResultOf(fn) ==
    IF fn = "insertVertex" THEN "2"
    ELSE IF fn = "getCellBounds" THEN "{x: 40, y: 40, width: 20, height: 20}"
    ELSE IF fn = "getZoomScale" THEN "1"
    ELSE IF fn = "setEdgeTerminal" THEN None
    ELSE IF fn \in HandlerFunctions \cup {"resizeContainer"} THEN None
    ELSE "0"

\* qmxgraph.cell_bounds.CellBounds(**fields).
CellBoundsOf(fields) == [type |-> "CellBounds", fields |-> fields]

\* qmxgraph.js.prepare_js_call: the text fn(arg1, ..., argN).
RECURSIVE JoinArgs(_)
JoinArgs(args) ==
    IF args = <<>> THEN <<>>
    ELSE IF Len(args) = 1 THEN args
    ELSE <<Head(args), ", ">> \o JoinArgs(Tail(args))

PrepareJsCall(fn, args) == <<fn, "(">> \o JoinArgs(args) \o <<")">>

\* What the engine evaluates an expression to.  A call of a function that the
\* page does not define throws inside the engine and yields a null result.
EvalInEngine(expr, is_loaded) ==
    IF expr.kind = "call"
    THEN IF is_loaded /\ expr.fn \in Exports THEN ResultOf(expr.fn) ELSE None
    ELSE IF expr.kind = "exists"
    THEN IF is_loaded /\ expr.fn \in Exports THEN "true" ELSE "false"
    ELSE None

\* What the evaluation of an expression does to the page: a call of one of
\* the handler functions of a loaded page makes the variable given the
\* handler of the event, so that the event invokes the bridge slot when the
\* variable is that slot.  Double click and popup menu have one handler each,
\* which the call replaces; the other events keep the handlers they have.
EngineEvaluates(w, expr) ==
    IF expr.kind = "call" /\ w.loaded /\ expr.fn \in HandlerFunctions /\ Len(expr.args) = 1
    THEN LET m == HandlerMethods[CHOOSE i \in DOMAIN HandlerMethods :
                                    HandlerMethods[i].fn = expr.fn]
         IN  IF expr.args[1] = m.slot
             THEN [w EXCEPT !.wid.registered = @ \cup {m.signal}]
             ELSE IF m.signal \in {"on_double_click", "on_popup_menu"}
             THEN [w EXCEPT !.wid.registered = @ \ {m.signal}]
             ELSE w
    ELSE w

\* eval_js(callback, statement): the statement is handed to the engine; its
\* result reaches the callback from the event loop, on a later turn.
EvalJs(w, callback, expr, call) ==
    [w EXCEPT !.js_queue = Append(@, [callback |-> callback, expr |-> expr, call |-> call])]

Target(name) == [kind |-> "target", name |-> name]

(***************************************************************************)
(* QmxGraphApi.call_api and call_api_debug.                                *)
(***************************************************************************)
ErrUnloaded == <<"InvalidJavaScriptError", "Because graph is unloaded can't call the JavaScript API.">>

ErrFunctionNotFound(fn) ==
    <<"InvalidJavaScriptError", "Unable to find function \"", fn, "\" in QmxGraph JavaScript API">>

\* str(n) of a natural number.
RECURSIVE Numeral(_)
Numeral(n) ==
    IF n < 10
    THEN <<"0", "1", "2", "3", "4", "5", "6", "7", "8", "9">>[n + 1]
    ELSE Numeral(n \div 10) \o Numeral(n % 10)

\* The TypeError of is_loaded(self) called with extra positional arguments;
\* given counts self.
ErrIsLoadedGiven(given) ==
    <<"TypeError",
      "is_loaded() takes 1 positional argument but " \o Numeral(given) \o " were given">>

\* The same for the one argument that call_api_debug passes.
ErrIsLoadedArguments == ErrIsLoadedGiven(2)

CallExpr(fn, args) ==
    [kind |-> "call", fn |-> fn, args |-> args,
     text |-> <<"api.">> \o PrepareJsCall(fn, args)]

ExistsExpr(fn) ==
    [kind |-> "exists", fn |-> fn,
     text |-> <<"(typeof api !== 'undefined') && !!api.", fn>>]

\* The closure check_function_exist of call_api_debug.
CheckFunctionExist(w, closure, function_exist) ==
    IF function_exist = "true"
    THEN EvalJs(w, Target(closure.result_callback),
                CallExpr(closure.fn, closure.args), closure.call)
    ELSE Raise(w, ErrFunctionNotFound(closure.fn))

\* The closure check_is_loaded of call_api_debug.
CheckIsLoaded(w, closure, is_loaded) ==
    IF is_loaded = "true"
    THEN EvalJs(w, [closure EXCEPT !.kind = "check_function_exist"],
                ExistsExpr(closure.fn), closure.call)
    ELSE Raise(w, ErrUnloaded)

ErrEvalJsArguments ==
    <<"TypeError", "eval_js() missing 1 required positional argument: 'statement'">>

\* What self._web_view.eval_js(statement) can do, called as is_loaded calls
\* it, with the statement alone: raise, return nothing, or return the value.
EvalJsOutcomes == {"TypeError", "None", "true"}

EvalJsOneArgument(w) ==
    IF w.wid.eval_js_one_argument = "TypeError" THEN Raise(w, ErrEvalJsArguments)
    ELSE IF w.wid.eval_js_one_argument = "None" THEN Return(w, None)
    ELSE Return(w, "true")

\* QmxGraph.is_loaded(self) of widget.py, called with the given extra
\* positional arguments: it accepts none.
WidgetIsLoaded(w, arguments) ==
    IF Len(arguments) # 0
    THEN Raise(w, ErrIsLoadedGiven(Len(arguments) + 1))
    ELSE IF ~w.loaded
    THEN Return(w, "false")
    ELSE EvalJsOneArgument(w)

CallApiDebug(w, result_callback, fn, args, call) ==
    WidgetIsLoaded(w, <<[kind |-> "check_is_loaded", result_callback |-> result_callback,
                         fn |-> fn, args |-> args, call |-> call]>>)

\* Mutant: the callback is also called back at once, before the result exists.
CallApi_CallsBackAtOnce(w, result_callback, fn, args, call) ==
    Return(EvalJs(Invoke(w, result_callback, <<None>>), Target(result_callback),
                  CallExpr(fn, args), call),
           result_callback)

\* Mutant: the debug flag is not looked at.
CallApi_IgnoresDebug(w, result_callback, fn, args, call) ==
    Return(EvalJs(w, Target(result_callback), CallExpr(fn, args), call), result_callback)

\* Mutant: the guard of the debug mode is always on.
CallApi_AlwaysGuarded(w, result_callback, fn, args, call) ==
    LET w1 == CallApiDebug(w, result_callback, fn, args, call)
    IN  IF w1.raised # NoError THEN w1 ELSE Return(w1, result_callback)

CallApi(w, result_callback, fn, args, call) ==
    IF debug
    THEN LET w1 == CallApiDebug(w, result_callback, fn, args, call)
         IN  IF w1.raised # NoError THEN w1 ELSE Return(w1, result_callback)
    ELSE Return(EvalJs(w, Target(result_callback), CallExpr(fn, args), call),
                result_callback)

\* The closure DictToCellBoundCallback that get_cell_bounds makes around
\* the result_callback it is given.
DictToCellBoundCallback(result_callback) == "DictToCellBoundCallback." \o result_callback

CellBoundCallers == {"stub1", "stub2"}

ErrNotAMapping ==
    <<"TypeError", "type object argument after ** must be a mapping, not NoneType">>

DictToCellBound(w, result_callback, cell_bounds_as_dict) ==
    IF cell_bounds_as_dict = None
    THEN Raise(w, ErrNotAMapping)
    ELSE Invoke(w, result_callback, <<CellBoundsOf(cell_bounds_as_dict)>>)

\* get_cell_bounds(result_callback, cell_id).
GetCellBounds(w, result_callback, cell_id, call) ==
    LET w1 == CallApi(w, DictToCellBoundCallback(result_callback), "getCellBounds",
                      <<cell_id>>, call)
    IN  IF w1.raised # NoError THEN w1 ELSE Return(w1, result_callback)

SOURCE_TERMINAL_CELL == "source"
TARGET_TERMINAL_CELL == "target"

\* '%s is not a valid value for `terminal_type`' % (terminal_type,)
ErrTerminalType(terminal_type) ==
    <<"ValueError", terminal_type, " is not a valid value for ", "terminal_type">>

\* set_edge_terminal(result_callback, edge_id, terminal_type,
\*                   new_terminal_cell_id, port_name=None).
SetEdgeTerminal(w, result_callback, edge_id, terminal_type, new_terminal_cell_id, port_name, call) ==
    LET valid_terminal_types == {SOURCE_TERMINAL_CELL, TARGET_TERMINAL_CELL}
    IN  IF terminal_type \notin valid_terminal_types
        THEN Raise(w, ErrTerminalType(terminal_type))
        ELSE CallApi(w, result_callback, "setEdgeTerminal",
                     <<edge_id, terminal_type, new_terminal_cell_id, port_name>>, call)

\* The event loop hands the result of an evaluation to its callback.
Deliver(w, callback, result) ==
    IF callback.kind = "check_is_loaded"
    THEN CheckIsLoaded(w, callback, result)
    ELSE IF callback.kind = "check_function_exist"
    THEN CheckFunctionExist(w, callback, result)
    ELSE IF \E caller \in CellBoundCallers : callback.name = DictToCellBoundCallback(caller)
    THEN DictToCellBound(
             w, CHOOSE caller \in CellBoundCallers :
                    callback.name = DictToCellBoundCallback(caller), result)
    ELSE Invoke(w, callback.name, <<result>>)

(***************************************************************************)
(* QmxGraph (widget.py): the bridge objects, their signals and slots.      *)
(***************************************************************************)
\* The signals of EventsBridge, in the order of the class body.
EventSignals ==
    <<"on_cells_removed", "on_cells_added", "on_label_changed",
      "on_selection_changed", "on_terminal_changed",
      "on_terminal_with_port_changed", "on_view_update",
      "on_cells_bounds_changed">>

Signals == Range(EventSignals) \cup {"on_error", "on_double_click", "on_popup_menu"}

\* Bridges made by the client code, and the observers it connected to the
\* like-named signals of each.
Bridges == {"b1", "b2"}

Handlers == {"stub1", "stub2"}

\* The bridge of test_bridges_signal_handlers_can_call_api, whose observer
\* calls the api and waits for the result.
HandlerBridge == "events"

ObserversOf(bridge) ==
    IF bridge = "b1" THEN <<"b1.first", "b1.second">>
    ELSE IF bridge = "b2" THEN <<"b2.first">>
    ELSE <<"handler_that_call_api">>

\* conn: signal of the widget's own bridges -> what is connected to it, in
\* the order of the connect calls; timers: single-shot timers not yet fired;
\* slot_log, emit_log: the slot invocations and the emissions so far.
\* registered: the signals whose slot the page has been given as handler;
\* load_finished: the emissions of the widget's loadFinished; loads, events:
\* page loads and engine notifications so far; blanking: blank() was called
\* and the web view has not yet reported the blank page loaded;
\* eval_js_one_argument: what the web view's eval_js does when called with
\* the statement alone.
NewWidget ==
    [conn |-> [signal \in Signals |-> <<>>], timers |-> <<>>,
     slot_log |-> <<>>, emit_log |-> <<>>,
     registered |-> {}, load_finished |-> <<>>, loads |-> 0, events |-> 0,
     blanking |-> FALSE, eval_js_one_argument |-> "TypeError"]

\* JsPythonEventsBridge.js_to_py_args_on_cells_bounds_changed.
js_to_py_args_on_cells_bounds_changed(js_args) ==
    LET bounds_changed == js_args[1]
    IN  <<[k \in DOMAIN bounds_changed |-> CellBoundsOf(bounds_changed[k])]>>

\* getattr(self, f'js_to_py_args_{signal_name}', lambda x: x)(args)
ConvertArgs(signal, args) ==
    IF signal = "on_cells_bounds_changed"
    THEN js_to_py_args_on_cells_bounds_changed(args)
    ELSE args

ErrDisconnect(signal) ==
    <<"TypeError", "disconnect() failed between '", signal, "' and all its connections">>

\* Leaving a with suppress(...) block: an exception of one of the types ends there.
Suppress(w, types) ==
    IF w.raised # NoError /\ w.raised[1] \in types THEN [w EXCEPT !.raised = NoError] ELSE w

\* signal.disconnect(): all connections go; an error if there is none.
SignalDisconnectAll(w, signal) ==
    IF w.wid.conn[signal] = <<>>
    THEN Raise(w, ErrDisconnect(signal))
    ELSE [w EXCEPT !.wid.conn[signal] = <<>>]

SignalConnect(w, signal, target) ==
    [w EXCEPT !.wid.conn[signal] = Append(@, target)]

RECURSIVE WithoutFirst(_, _)
WithoutFirst(seq, x) ==
    IF seq = <<>> THEN <<>>
    ELSE IF Head(seq) = x THEN Tail(seq)
    ELSE <<Head(seq)>> \o WithoutFirst(Tail(seq), x)

\* Mutant: a bridge is connected once more without being disconnected first.
SilentDisconnect_KeepsConnection(w, signal, target) == w

\* silent_disconnect(signal, slot) of callback_blocker.py on a signal of the widget.
SilentDisconnect(w, signal, target) ==
    LET n == Cardinality({i \in DOMAIN w.wid.conn[signal] : w.wid.conn[signal][i] = target})
    IN  IF silent_disconnect(n) = n
        THEN w
        ELSE [w EXCEPT !.wid.conn[signal] = WithoutFirst(@, target)]

\* Mutant: the handlers set before stay connected.
SetDoubleClickHandler_KeepsOld(w, handler) ==
    IF handler # None THEN SignalConnect(w, "on_double_click", handler) ELSE w

SetDoubleClickHandler(w, handler) ==
    LET w1 == Suppress(SignalDisconnectAll(w, "on_double_click"), {"TypeError"})
    IN  IF handler # None THEN SignalConnect(w1, "on_double_click", handler) ELSE w1

SetPopupMenuHandler(w, handler) ==
    LET w1 == Suppress(SignalDisconnectAll(w, "on_popup_menu"), {"TypeError"})
    IN  IF handler # None THEN SignalConnect(w1, "on_popup_menu", handler) ELSE w1

SetErrorBridge(w, bridge) ==
    SignalConnect(SilentDisconnect(w, "on_error", bridge), "on_error", bridge)

RECURSIVE ConnectEach(_, _, _)
ConnectEach(w, signal_name_list, bridge) ==
    IF signal_name_list = <<>>
    THEN w
    ELSE LET signal_name == Head(signal_name_list)
         IN  ConnectEach(SignalConnect(SilentDisconnect(w, signal_name, bridge),
                                       signal_name, bridge),
                         Tail(signal_name_list), bridge)

SetEventsBridge(w, bridge) == ConnectEach(w, EventSignals, bridge)

RECURSIVE InvokeEach(_, _, _)
InvokeEach(w, targets, args) ==
    IF targets = <<>> \/ w.raised # NoError
    THEN w
    ELSE InvokeEach(Invoke(w, Head(targets), args), Tail(targets), args)

\* signal.emit(*args): what is connected is called in the order of the
\* connections; a connected bridge passes the emission on to its observers.
RECURSIVE Emit(_, _, _)
Emit(w, targets, args) ==
    IF targets = <<>> \/ w.raised # NoError
    THEN w
    ELSE LET target == Head(targets)
             w1 == IF target \in Bridges \cup {HandlerBridge}
                   THEN InvokeEach(w, ObserversOf(target), args)
                   ELSE Invoke(w, target, args)
         IN  Emit(w1, Tail(targets), args)

\* Mutant: the slot emits the signal itself.
AsyncSlot_EmitsAtOnce(w, signal, args) ==
    Emit(w, w.wid.conn[signal], ConvertArgs(signal, args))

\* async_slot of _make_async_pyqt_slot: the emission is left to a single-shot timer.
AsyncSlot(w, signal, args) ==
    [w EXCEPT !.wid.timers = Append(@, [signal |-> signal,
                                        args |-> ConvertArgs(signal, args),
                                        id |-> Len(w.wid.slot_log) + 1])]

\* The timer of a slot invocation elapses: lambda: signal.emit(*args).
SingleShot(w, i) ==
    LET timer == w.wid.timers[i]
        w1 == [w EXCEPT !.wid.timers = SubSeq(@, 1, i - 1) \o SubSeq(@, i + 1, Len(@))]
    IN  Emit(w1, w1.wid.conn[timer.signal], timer.args)

ErrMissingArgument(name, parameter) ==
    <<"TypeError", name, "() missing 1 required positional argument: '", parameter, "'">>

\* The TypeError of a call that leaves out the parameters named, the last
\* ones of the method, as Python words it for one, two and three of them.
ErrMissingArguments(name, missing) ==
    IF Len(missing) = 1
    THEN ErrMissingArgument(name, missing[1])
    ELSE IF Len(missing) = 2
    THEN <<"TypeError", name, "() missing 2 required positional arguments: '",
           missing[1], "' and '", missing[2], "'">>
    ELSE <<"TypeError", name, "() missing 3 required positional arguments: '",
           missing[1], "', '", missing[2], "', and '", missing[3], "'">>

\* The TypeError of a call with more positional arguments than the method
\* takes, self counted in both numbers.
ErrTooManyArguments(name, takes, given) ==
    <<"TypeError", name, "() takes ", Numeral(takes), " positional arguments but ",
      Numeral(given), " were given">>

\* QmxGraphApi.on_cells_added ... on_cells_bounds_changed, set_double_click_handler,
\* set_popup_menu_handler (self, result_callback, handler), called with the
\* given positional arguments: call_api of the page's function with the
\* handler as a variable.
ApiSetHandler(w, name, arguments, call) ==
    LET parameters == <<"result_callback", "handler">>
    IN  IF Len(arguments) < 2
        THEN Raise(w, ErrMissingArguments(name, SubSeq(parameters, Len(arguments) + 1, 2)))
        ELSE IF Len(arguments) > 2
        THEN Raise(w, ErrTooManyArguments(name, 3, Len(arguments) + 1))
        ELSE CallApi(w, arguments[1], HandlerMethod(name).fn, <<arguments[2]>>, call)

\* QmxGraphApi.resize_container(self, result_callback, width, height).
ApiResizeContainer(w, arguments, call) ==
    LET parameters == <<"result_callback", "width", "height">>
    IN  IF Len(arguments) < 3
        THEN Raise(w, ErrMissingArguments("resize_container",
                                          SubSeq(parameters, Len(arguments) + 1, 3)))
        ELSE IF Len(arguments) > 3
        THEN Raise(w, ErrTooManyArguments("resize_container", 4, Len(arguments) + 1))
        ELSE CallApi(w, arguments[1], "resizeContainer",
                     <<arguments[2], arguments[3]>>, call)

\* The api methods _connect_events_bridge calls, in its order.
EventsBridgeHandlers == SubSeq(HandlerMethods, 1, 8)

\* The calls of _connect_events_bridge, each with the slot alone.  They are
\* not calls the client numbers, hence the 0.
RECURSIVE SetHandlerEach(_, _)
SetHandlerEach(w, handlers) ==
    IF handlers = <<>> \/ w.raised # NoError
    THEN w
    ELSE SetHandlerEach(
             ApiSetHandler(w, Head(handlers).method, <<Head(handlers).slot>>, 0),
             Tail(handlers))

\* The body of "if self.is_loaded(): ..." of the _connect_* methods.
WhenLoaded(w, connected) ==
    LET w1 == WidgetIsLoaded(w, <<>>)
    IN  IF w1.raised # NoError THEN w1
        ELSE IF Truthy(w1.returned) /\ w1.returned # "false" THEN connected
        ELSE Return(w1, None)

ConnectEventsBridge(w) == WhenLoaded(w, SetHandlerEach(w, EventsBridgeHandlers))

ConnectDoubleClickHandler(w) ==
    WhenLoaded(w, ApiSetHandler(w, "set_double_click_handler",
                                <<"bridge_double_click_handler.double_click_slot">>, 0))

ConnectPopupMenuHandler(w) ==
    WhenLoaded(w, ApiSetHandler(w, "set_popup_menu_handler",
                                <<"bridge_popup_menu_handler.popup_menu_slot">>, 0))

\* The part of post_load under "if ok:".
PostLoadConnect(w) ==
    LET w1 == ConnectEventsBridge(w)
        w2 == IF w1.raised # NoError THEN w1 ELSE ConnectDoubleClickHandler(w1)
        w3 == IF w2.raised # NoError THEN w2 ELSE ConnectPopupMenuHandler(w2)
    IN  IF w3.raised # NoError THEN w3 ELSE ApiResizeContainer(w3, <<"width", "height">>, 0)

\* post_load(ok) of _execute_on_load_finished, connected to the web view's loadFinished.
PostLoad(w, ok) ==
    LET w1 == IF ok THEN WidgetIsLoaded(w, <<>>) ELSE Return(w, "false")
        is_ok == w1.raised = NoError /\ Truthy(w1.returned) /\ w1.returned # "false"
        w2 == IF w1.raised # NoError THEN w1
              ELSE IF is_ok THEN PostLoadConnect(w1)
              ELSE w1
    IN  IF w2.raised # NoError
        THEN w2
        ELSE Return([w2 EXCEPT !.wid.load_finished =
                         Append(@, IF is_ok THEN "true" ELSE "false")], None)

(***************************************************************************)
(* A handler of a bridge signal that calls the api and waits for the       *)
(* result with a CallbackBlocker of its own                                *)
(* (test_bridges_signal_handlers_can_call_api).                            *)
(***************************************************************************)
\* cb: the handler's blocker; pc: where the handler is; in_frame: the handler
\* was called from within the engine's call of the slot and has not returned;
\* client: where the code around the outer blocker is; the rest is history:
\* which timeout timers fired, whether the handler began while the outer
\* wait() was blocked, and the order in which the two wait() returned.
NewNested ==
    [cb |-> NewBlocker(DEFAULT_TIMEOUT, None), pc |-> "idle", in_frame |-> FALSE,
     client |-> "start", inner_fired |-> FALSE, outer_fired |-> FALSE,
     began_inside |-> FALSE, returns |-> <<>>]

\* The same code applied to the handler's blocker instead of the outer one.
Swap(w) == [w EXCEPT !.cb = w.nested.cb, !.nested.cb = w.cb]

OnInner(Op(_), w) == Swap(Op(Swap(w)))

ExitWithoutError(w) == BlockerExit(w, NoError)

\* handler_that_call_api up to the entry into the event loop of its wait():
\* with CallbackBlocker() as cb: loaded_graph.api.get_zoom_scale(cb)
HandlerStart(w) ==
    LET w1 == [w EXCEPT !.nested.cb = NewBlocker(DEFAULT_TIMEOUT, None)]
        w2 == CallApi(w1, "inner_cb", "getZoomScale", <<>>, 0)
        w3 == IF w2.raised # NoError THEN w2 ELSE OnInner(ExitWithoutError, w2)
    IN  [w3 EXCEPT !.nested.pc = IF w3.nested.cb.loop = "running" THEN "waiting" ELSE "done",
                   !.nested.began_inside = w.nested.client = "waiting"]

\* handler_that_call_api from the return of the event loop of its wait() on.
HandlerFinish(w) ==
    LET w1 == OnInner(BlockerWaitResume, w)
    IN  [w1 EXCEPT !.nested.pc = "done", !.nested.in_frame = FALSE,
                   !.nested.returns = Append(@, "inner")]

\* The handler is called when the emission reaches it.
StartIfCalled(w, calls_before) ==
    IF \E i \in (calls_before + 1)..Len(w.stub_calls) :
           w.stub_calls[i].target = "handler_that_call_api"
    THEN HandlerStart(w)
    ELSE w

\* The event loop hands a result to its callback, the handler's blocker included.
DeliverNested(w, callback, result) ==
    IF callback.kind = "target" /\ callback.name = "inner_cb"
    THEN LET w1 == OnInner(LAMBDA v : Deliver(v, Target("cb"), result), w)
         IN  [w1 EXCEPT !.stub_calls[Len(w1.stub_calls)].target = "inner_cb"]
    ELSE Deliver(w, callback, result)

(***************************************************************************)
(* Operations on the barrier, applied by the client code.                  *)
(***************************************************************************)
Count(log, target) == Cardinality({i \in DOMAIN log : log[i].target = target})

Commit(w, op) ==
    /\ barrier' = w.bar
    /\ blocker' = w.cb
    /\ stub_calls' = w.stub_calls
    /\ js_queue' = w.js_queue
    /\ widget' = w.wid
    /\ nested' = w.nested
    /\ raised' = w.raised
    /\ returned' = w.returned
    /\ last_op' = op

\* inc_total: sum of the accepted increment(n); slots: slots created;
\* invocations: accepted invocations of the barrier (direct or through a slot);
\* waited: a wait() was accepted; crossings: times the barrier went from not
\* crossed to crossed; registered: registrations per callable;
\* order: the registrations, in the order of the register calls;
\* timer_fired: the blocker's timer fired during its current wait();
\* wait_between: a wait() of the blocker returned after the blocker's first
\* invocation; set_again: the bridge setters that were given a bridge that
\* was connected already.
NewHist ==
    [inc_total |-> 0, slots |-> 0, invocations |-> 0, waited |-> FALSE,
     crossings |-> 0, registered |-> [t \in Stubs \cup {"cb"} |-> 0],
     timer_fired |-> FALSE, wait_between |-> FALSE, order |-> <<>>,
     set_again |-> {}]

Registrations == hist.registered["stub1"] + hist.registered["stub2"] + hist.registered["cb"]

Crossings(w) == hist.crossings + (IF w.bar.crossed /\ ~barrier.crossed THEN 1 ELSE 0)

Accepted(w) == IF w.raised = NoError THEN 1 ELSE 0

ApiUnchanged == UNCHANGED <<exceptions, debug, loaded, calls, turn>>

DoIncrement(n) ==
    /\ barrier.calls_pending + n <= MaxPending
    /\ hist.inc_total + n <= MaxPending
    /\ LET w == Increment(World, n)
       IN  /\ Commit(w, [name |-> "increment", n |-> n])
           /\ hist' = [hist EXCEPT !.inc_total = @ + n * Accepted(w)]
    /\ UNCHANGED first_value
    /\ ApiUnchanged

DoBarrierCall ==
    /\ barrier.calls_pending > -MaxExtraCalls
    /\ LET w == BarrierCall(World)
       IN  /\ Commit(w, [name |-> "call"])
           /\ hist' = [hist EXCEPT !.invocations = @ + Accepted(w),
                                   !.crossings = Crossings(w)]
    /\ UNCHANGED first_value
    /\ ApiUnchanged

DoBarrierWait ==
    /\ LET w == BarrierWait(World)
       IN  /\ Commit(w, [name |-> "wait"])
           /\ hist' = [hist EXCEPT !.waited = @ \/ w.raised = NoError,
                                   !.crossings = Crossings(w)]
    /\ UNCHANGED first_value
    /\ ApiUnchanged

DoRegister(to_call, pass_self) ==
    /\ Registrations < MaxRegistered
    /\ LET w == Register(World, to_call, pass_self)
       IN  /\ Commit(w, [name |-> "register", to_call |-> to_call, pass_self |-> pass_self])
           /\ hist' = [hist EXCEPT !.registered[to_call] = @ + 1,
                                   !.crossings = Crossings(w),
                                   !.order = Append(@, [to_call |-> to_call,
                                                        pass_self |-> pass_self])]
    /\ UNCHANGED first_value
    /\ ApiUnchanged

DoCreateStoredResultCallback(key) ==
    /\ barrier.calls_pending + 1 <= MaxPending
    /\ LET w == CreateStoredResultCallback(World, key)
       IN  /\ Commit(w, [name |-> "create_stored_result_callback", key |-> key])
           /\ hist' = [hist EXCEPT !.slots = @ + Accepted(w)]
    /\ UNCHANGED first_value
    /\ ApiUnchanged

DoGetItem(item) ==
    /\ barrier.calls_pending + 1 <= MaxPending
    /\ LET w == GetItem(World, item)
       IN  /\ Commit(w, [name |-> "getitem", key |-> item])
           /\ hist' = IF item \in DOMAIN barrier.stored_results
                      THEN hist
                      ELSE [hist EXCEPT !.slots = @ + Accepted(w)]
    /\ UNCHANGED first_value
    /\ ApiUnchanged

DoGetResult(key) ==
    /\ Commit(GetResult(World, key), [name |-> "get_result", key |-> key])
    /\ UNCHANGED <<hist, first_value>>
    /\ ApiUnchanged

\* The slot is a handle the client got from create_stored_result_callback or
\* from indexing.  The barrier is invoked by the slot unless the slot refuses
\* the write.
DoStoredResultCall(key, value) ==
    /\ key \in DOMAIN barrier.stored_results
    /\ barrier.calls_pending > -MaxExtraCalls
    /\ LET w == StoredResultCall(World, key, value)
       IN  /\ Commit(w, [name |-> "slot_call", key |-> key, value |-> value])
           /\ hist' = [hist EXCEPT !.invocations = @ + Accepted(w),
                                   !.crossings = Crossings(w)]
    /\ first_value' = IF first_value[key] = Nothing
                      THEN [first_value EXCEPT ![key] = Some(value)]
                      ELSE first_value
    /\ ApiUnchanged

InitObjects ==
    /\ barrier = NewBarrier
    /\ stub_calls = <<>>
    /\ raised = NoError
    /\ returned = None
    /\ last_op = [name |-> "init"]
    /\ hist = NewHist
    /\ first_value = [k \in Keys |-> Nothing]
    /\ exceptions = <<>>
    /\ js_queue = <<>>
    /\ calls = <<>>
    /\ turn = 0
    /\ nested = NewNested

InitCommon ==
    /\ InitObjects
    /\ widget = NewWidget

InitBarrier ==
    /\ InitCommon
    /\ blocker = NewBlocker(DEFAULT_TIMEOUT, None)
    /\ debug = FALSE
    /\ loaded = TRUE

(***************************************************************************)
(* SpecBarrier: a barrier driven by increment, invocation, wait and        *)
(* register, with plain callables as continuations.                        *)
(***************************************************************************)
NextBarrier ==
    \/ \E n \in 0..MaxPending : DoIncrement(n)
    \/ DoBarrierCall
    \/ DoBarrierWait
    \/ \E to_call \in Stubs, pass_self \in BOOLEAN : DoRegister(to_call, pass_self)

SpecBarrier == InitBarrier /\ [][NextBarrier]_vars

(***************************************************************************)
(* SpecSlots: a barrier with stored-result slots.                          *)
(***************************************************************************)
NextSlots ==
    \/ \E n \in 0..MaxPending : DoIncrement(n)
    \/ DoBarrierCall
    \/ DoBarrierWait
    \/ \E pass_self \in BOOLEAN : DoRegister("stub1", pass_self)
    \/ \E key \in Keys : DoCreateStoredResultCallback(key)
    \/ \E key \in Keys : DoGetItem(key)
    \/ \E key \in Keys : DoGetResult(key)
    \/ \E key \in Keys, value \in Values : DoStoredResultCall(key, value)

SpecSlots == InitBarrier /\ [][NextSlots]_vars

(***************************************************************************)
(* Operations on the blocker, and the events of the loop it runs.          *)
(***************************************************************************)
BlockerArgs == {<<>>, <<"7">>, <<None>>}

BarrierUnchanged == UNCHANGED first_value

DoBlockerCall(args) ==
    /\ Count(stub_calls, "cb") < MaxBlockerCalls
    /\ Commit(Invoke(World, "cb", args), [name |-> "blocker_call", args |-> args])
    /\ UNCHANGED hist
    /\ BarrierUnchanged
    /\ ApiUnchanged

\* wait() is entered; it returns within the same step if the callback was
\* called already, else the caller stays inside exec_().
DoBlockerWait ==
    /\ blocker.loop = "idle"
    /\ Commit(BlockerWaitEnter(World),
              IF blocker.called
              THEN [name |-> "blocker_wait_return", timer_fired |-> FALSE, blocked |-> FALSE]
              ELSE [name |-> "blocker_wait_enter"])
    /\ hist' = [hist EXCEPT !.timer_fired = FALSE,
                            !.wait_between = @ \/ blocker.called]
    /\ BarrierUnchanged
    /\ ApiUnchanged

\* The single-shot timer elapses and the loop dispatches its timeout signal
\* to _quit_loop_by_timeout.
DoTimerFire ==
    /\ blocker.timer = "active"
    /\ blocker.connections >= 1
    /\ Commit(QuitLoopByTimeout(World), [name |-> "timer_fire"])
    /\ hist' = [hist EXCEPT !.timer_fired = TRUE]
    /\ turn' = turn + 1
    /\ BarrierUnchanged
    /\ UNCHANGED <<exceptions, debug, loaded, calls>>

\* exec_() returns once quit() was called, and wait() goes on from there.
DoBlockerWaitResume ==
    /\ blocker.loop = "quit"
    /\ Commit(BlockerWaitResume(World),
              [name |-> "blocker_wait_return", timer_fired |-> hist.timer_fired,
               blocked |-> TRUE])
    /\ hist' = [hist EXCEPT !.wait_between = @ \/ blocker.called]
    /\ BarrierUnchanged
    /\ ApiUnchanged

InitBlocker ==
    /\ InitCommon
    /\ \E timeout \in Timeouts, msg \in Msgs : blocker = NewBlocker(timeout, msg)
    /\ debug = FALSE
    /\ loaded = TRUE

(***************************************************************************)
(* SpecBlocker: one blocker, invoked directly, waited on, timed out.       *)
(***************************************************************************)
NextBlocker ==
    \/ \E args \in BlockerArgs : DoBlockerCall(args)
    \/ DoBlockerWait
    \/ DoTimerFire
    \/ DoBlockerWaitResume

SpecBlocker == InitBlocker /\ [][NextBlocker]_vars

(***************************************************************************)
(* SpecChain: a blocker registered as continuation of a barrier, as in     *)
(*   with CallbackBlocker() as cb, CallbackBarrier() as barrier:           *)
(*       barrier.register(cb); barrier.increment(n); ...                   *)
(* The completions reach the barrier before the blocker's wait() or from   *)
(* handlers that run inside it.                                            *)
(***************************************************************************)
InitChain ==
    /\ InitCommon
    /\ \E timeout \in Timeouts : blocker = NewBlocker(timeout, None)
    /\ debug = FALSE
    /\ loaded = TRUE

NextChain ==
    \/ \E n \in 0..MaxPending : DoIncrement(n)
    \/ DoBarrierCall
    \/ DoBarrierWait
    \/ \E to_call \in {"cb", "stub1"}, pass_self \in BOOLEAN : DoRegister(to_call, pass_self)
    \/ DoBlockerWait
    \/ DoTimerFire
    \/ DoBlockerWaitResume

SpecChain == InitChain /\ [][NextChain]_vars

(***************************************************************************)
(* SpecBlockerScope: with CallbackBlocker(...) as cb: <body>.  The body    *)
(* may invoke the callback and may raise.                                  *)
(***************************************************************************)
\* The with statement leaves the body, with the exception the body raised
\* (NoError if none), and calls __exit__.  If __exit__ waits, the scope is
\* left when wait() resumes.
DoBlockerExit(value) ==
    /\ blocker.loop = "idle"
    /\ LET w == Propagate(BlockerExit(World, value), value)
       IN  /\ Commit(w, [name |-> "blocker_exit", value |-> value])
           /\ hist' = IF w.cb.loop = "running"
                      THEN [hist EXCEPT !.timer_fired = FALSE]
                      ELSE hist
    /\ BarrierUnchanged
    /\ ApiUnchanged

NextBlockerScope ==
    \/ \E args \in BlockerArgs : DoBlockerCall(args)
    \/ \E value \in ExitValues : DoBlockerExit(value)
    \/ DoTimerFire
    \/ DoBlockerWaitResume

SpecBlockerScope == InitBlocker /\ [][NextBlockerScope]_vars

(***************************************************************************)
(* SpecBarrierScope: with CallbackBarrier() as barrier: <body>.            *)
(***************************************************************************)
DoBarrierExit(value) ==
    /\ LET w1 == BarrierExit(World, value)
           w == Propagate(w1, value)
       IN  /\ Commit(w, [name |-> "barrier_exit", value |-> value,
                         exit_raised |-> w1.raised])
           /\ hist' = [hist EXCEPT !.waited = @ \/ w1.bar.waiting_on_barrier
                                                \/ w1.bar.crossed,
                                   !.crossings = Crossings(w)]
    /\ UNCHANGED first_value
    /\ ApiUnchanged

NextBarrierScope ==
    \/ \E n \in 0..MaxPending : DoIncrement(n)
    \/ DoBarrierCall
    \/ \E to_call \in Stubs, pass_self \in BOOLEAN : DoRegister(to_call, pass_self)
    \/ \E value \in ExitValues : DoBarrierExit(value)

SpecBarrierScope == InitBarrier /\ [][NextBarrierScope]_vars

(***************************************************************************)
(* Operations on the widget, slot invocations by the page, timers.         *)
(***************************************************************************)
\* Arguments the page passes to the slot of a signal.
Payloads(signal) ==
    IF signal = "on_double_click" THEN {<<"cell1">>, <<"cell2">>}
    ELSE IF signal = "on_popup_menu" THEN {<<"cell1", "15", "15">>}
    ELSE IF signal = "on_error" THEN {<<"Uncaught Error: test", "qrc:/", "1", "1">>}
    ELSE IF signal = "on_label_changed" THEN {<<"v1", "new", "old">>}
    ELSE IF signal = "on_terminal_changed" THEN {<<"e1", "target", "v2", "v1">>}
    ELSE IF signal = "on_terminal_with_port_changed"
    THEN {<<"e1", "target", "v2", "port", "v1", "">>}
    ELSE IF signal = "on_view_update" THEN {<<"dump", "[1, 0, 0]">>}
    ELSE IF signal = "on_cells_bounds_changed"
    THEN {<<[v1 |-> [x |-> "1", y |-> "2", width |-> "3", height |-> "4"]]>>}
    ELSE {<<"[v1]">>, <<"[v1, v2]">>}

DoSetDoubleClickHandler(handler) ==
    /\ Commit(SetDoubleClickHandler(World, handler),
              [name |-> "set_double_click_handler", handler |-> handler])
    /\ UNCHANGED <<hist, first_value>>
    /\ ApiUnchanged

DoSetPopupMenuHandler(handler) ==
    /\ Commit(SetPopupMenuHandler(World, handler),
              [name |-> "set_popup_menu_handler", handler |-> handler])
    /\ UNCHANGED <<hist, first_value>>
    /\ ApiUnchanged

DoSetEventsBridge(bridge) ==
    /\ Commit(SetEventsBridge(World, bridge), [name |-> "set_events_bridge", bridge |-> bridge])
    /\ hist' = IF \A i \in DOMAIN EventSignals : bridge \in Range(widget.conn[EventSignals[i]])
               THEN [hist EXCEPT !.set_again = @ \cup {"set_events_bridge"}]
               ELSE hist
    /\ UNCHANGED first_value
    /\ ApiUnchanged

DoSetErrorBridge(bridge) ==
    /\ Commit(SetErrorBridge(World, bridge), [name |-> "set_error_bridge", bridge |-> bridge])
    /\ hist' = IF bridge \in Range(widget.conn["on_error"])
               THEN [hist EXCEPT !.set_again = @ \cup {"set_error_bridge"}]
               ELSE hist
    /\ UNCHANGED first_value
    /\ ApiUnchanged

\* The page invokes the slot of a bridge object registered on the web channel.
DoSlotInvoked(signal, args) ==
    /\ Len(widget.slot_log) < MaxEvents
    /\ LET w == AsyncSlot(World, signal, args)
       IN  Commit([w EXCEPT !.wid.slot_log =
                       Append(@, [signal |-> signal, args |-> args, turn |-> turn,
                                  calls |-> Len(w.stub_calls) - Len(stub_calls)])],
                  [name |-> "slot", signal |-> signal])
    /\ UNCHANGED <<hist, first_value>>
    /\ ApiUnchanged

\* One turn of the event loop: a single-shot timer elapses.
DoSingleShot(i) ==
    /\ i \in DOMAIN widget.timers
    /\ LET timer == widget.timers[i]
           w == SingleShot(World, i)
       IN  Commit([w EXCEPT !.wid.emit_log =
                       Append(@, [id |-> timer.id, signal |-> timer.signal,
                                  args |-> timer.args, turn |-> turn + 1,
                                  calls |-> Len(w.stub_calls) - Len(stub_calls)])],
                  [name |-> "emit", signal |-> timer.signal])
    /\ turn' = turn + 1
    /\ UNCHANGED <<hist, first_value, exceptions, debug, loaded, calls>>

(***************************************************************************)
(* SpecHandlers: the exclusive channels, double click and popup menu.      *)
(***************************************************************************)
NextHandlers ==
    \/ \E handler \in Handlers \cup {None} : DoSetDoubleClickHandler(handler)
    \/ \E handler \in Handlers \cup {None} : DoSetPopupMenuHandler(handler)
    \/ \E signal \in {"on_double_click", "on_popup_menu"} :
           \E args \in Payloads(signal) : DoSlotInvoked(signal, args)
    \/ \E i \in 1..MaxEvents : DoSingleShot(i)

SpecHandlers == InitBarrier /\ [][NextHandlers]_vars

(***************************************************************************)
(* SpecAsync: the slots of the four bridges of a widget whose bridges and  *)
(* handlers have been set.                                                 *)
(***************************************************************************)
\* The widget after set_events_bridge, set_error_bridge,
\* set_double_click_handler and set_popup_menu_handler.
ConnectedWidget(bridge, handler) ==
    LET w0 == [bar |-> NewBarrier, cb |-> NewBlocker(DEFAULT_TIMEOUT, None),
               stub_calls |-> <<>>, js_queue |-> <<>>, raised |-> NoError,
               returned |-> None, wid |-> NewWidget]
    IN  SetPopupMenuHandler(
            SetDoubleClickHandler(
                SetErrorBridge(SetEventsBridge(w0, bridge), bridge), handler), handler).wid

InitAsync ==
    /\ InitObjects
    /\ blocker = NewBlocker(DEFAULT_TIMEOUT, None)
    /\ debug = FALSE
    /\ loaded = TRUE
    /\ \E bridge \in Bridges, handler \in Handlers :
           widget = ConnectedWidget(bridge, handler)

NextAsync ==
    \/ \E signal \in Signals : \E args \in Payloads(signal) : DoSlotInvoked(signal, args)
    \/ \E i \in 1..MaxEvents : DoSingleShot(i)

SpecAsync == InitAsync /\ [][NextAsync]_vars

(***************************************************************************)
(* SpecBridges: the events bridge and the error bridge.                    *)
(***************************************************************************)
NextBridges ==
    \/ \E bridge \in Bridges : DoSetEventsBridge(bridge)
    \/ \E bridge \in Bridges : DoSetErrorBridge(bridge)
    \/ \E signal \in {"on_cells_added", "on_error"} :
           \E args \in Payloads(signal) : DoSlotInvoked(signal, args)
    \/ \E i \in 1..MaxEvents : DoSingleShot(i)

SpecBridges == InitBarrier /\ [][NextBridges]_vars

(***************************************************************************)
(* SpecLoad: page loads, blanking and engine notifications on a widget     *)
(* whose bridge and handlers are set before or after the load.             *)
(***************************************************************************)
\* The web view finishes loading the graph page, well (ok) or not.
DoLoadFinished(ok) ==
    /\ widget.loads < MaxLoads
    /\ LET w0 == [World EXCEPT !.loaded = ok, !.wid.registered = {}, !.wid.loads = @ + 1]
       IN  Commit(PostLoad(w0, ok), [name |-> "load_finished", ok |-> ok])
    /\ loaded' = ok
    /\ UNCHANGED <<hist, first_value, exceptions, debug, calls, turn>>

\* QmxGraph.blank(): the web view is told to load the blank page.
Blank(w) == Return([w EXCEPT !.wid.blanking = TRUE], None)

\* blank() up to its return: the page it replaces is still there and
\* loadFinished has not been emitted.
DoBlank ==
    /\ ~widget.blanking
    /\ widget.loads < MaxLoads
    /\ Commit(Blank(World), [name |-> "blank"])
    /\ UNCHANGED <<hist, first_value>>
    /\ ApiUnchanged

\* On a later turn the web view reports the blank page loaded: post_load(True)
\* runs on a page without graph.
DoBlankFinished ==
    /\ widget.blanking
    /\ LET w0 == [World EXCEPT !.loaded = FALSE, !.wid.registered = {},
                               !.wid.loads = @ + 1, !.wid.blanking = FALSE]
       IN  Commit(PostLoad(w0, TRUE), [name |-> "blank_finished"])
    /\ loaded' = FALSE
    /\ UNCHANGED <<hist, first_value, exceptions, debug, calls, turn>>

\* The graph of the loaded page notifies an event: it calls the handler it
\* was given for that event, if any.
DoEngineEvent(signal, args) ==
    /\ loaded
    /\ widget.events < MaxEvents
    /\ LET w0 == [World EXCEPT !.wid.events = @ + 1]
           w1 == AsyncSlot(w0, signal, args)
       IN  Commit(IF signal \in widget.registered
                  THEN [w1 EXCEPT !.wid.slot_log =
                            Append(@, [signal |-> signal, args |-> args, turn |-> turn,
                                       calls |-> Len(w1.stub_calls) - Len(stub_calls)])]
                  ELSE w0,
                  [name |-> "engine_event", signal |-> signal])
    /\ UNCHANGED <<hist, first_value>>
    /\ ApiUnchanged

InitLoad ==
    /\ InitObjects
    /\ blocker = NewBlocker(DEFAULT_TIMEOUT, None)
    /\ debug = FALSE
    /\ loaded = FALSE
    /\ \E outcome \in EvalJsOutcomes :
           widget = [NewWidget EXCEPT !.eval_js_one_argument = outcome]

NextLoad ==
    \/ \E bridge \in Bridges : DoSetEventsBridge(bridge)
    \/ \E handler \in Handlers \cup {None} : DoSetDoubleClickHandler(handler)
    \/ \E handler \in Handlers \cup {None} : DoSetPopupMenuHandler(handler)
    \/ \E ok \in BOOLEAN : DoLoadFinished(ok)
    \/ DoBlank
    \/ DoBlankFinished
    \/ \E signal \in Signals \ {"on_error"} :
           \E args \in Payloads(signal) : DoEngineEvent(signal, args)

SpecLoad == InitLoad /\ [][NextLoad]_vars

(***************************************************************************)
(* SpecNested: the outer blocker waits for insert_vertex; the page         *)
(* notifies cells added; the handler of on_cells_added calls               *)
(* get_zoom_scale and waits with a blocker of its own.                     *)
(***************************************************************************)
\* Events are dispatched while control is inside an event loop: that of one
\* of the two wait() calls, or the loop that runs once the outer with
\* statement is over (wait_signals).
InLoop ==
    \/ blocker.loop # "idle"
    \/ nested.cb.loop # "idle"
    \/ nested.client = "returned"

\* The handler blocked in its wait() is on top of the stack: nothing below it runs.
HandlerOnTop == nested.pc = "waiting"

NestedUnchanged == UNCHANGED <<hist, first_value, exceptions, debug, loaded, calls>>

\* with CallbackBlocker() as cb: loaded_graph.api.insert_vertex(cb, ...)
DoClientCall ==
    /\ nested.client = "start"
    /\ LET w == CallApi(World, "cb", "insertVertex", <<"10">>, 0)
       IN  Commit([w EXCEPT !.nested.client = "called"], [name |-> "client_call"])
    /\ UNCHANGED turn
    /\ NestedUnchanged

\* The outer with statement ends: __exit__ calls wait().
DoClientWait ==
    /\ nested.client = "called"
    /\ ~HandlerOnTop
    /\ LET w == BlockerExit(World, NoError)
       IN  Commit([w EXCEPT !.nested.client =
                       IF w.cb.loop = "running" THEN "waiting" ELSE "returned"],
                  [name |-> "client_wait"])
    /\ UNCHANGED turn
    /\ NestedUnchanged

\* The outer exec_() returns, once the handler it dispatched has returned.
DoClientResume ==
    /\ nested.client = "waiting"
    /\ blocker.loop = "quit"
    /\ ~HandlerOnTop
    /\ LET w == BlockerWaitResume(World)
       IN  Commit([w EXCEPT !.nested.client = "returned",
                            !.nested.returns = Append(@, "outer")],
                  [name |-> "client_resume"])
    /\ UNCHANGED turn
    /\ NestedUnchanged

DoOuterTimerFire ==
    /\ InLoop
    /\ blocker.timer = "active"
    /\ blocker.connections >= 1
    /\ Commit([QuitLoopByTimeout(World) EXCEPT !.nested.outer_fired = TRUE],
              [name |-> "outer_timer_fire"])
    /\ turn' = turn + 1
    /\ NestedUnchanged

DoInnerTimerFire ==
    /\ InLoop
    /\ nested.cb.timer = "active"
    /\ nested.cb.connections >= 1
    /\ Commit([OnInner(QuitLoopByTimeout, World) EXCEPT !.nested.inner_fired = TRUE],
              [name |-> "inner_timer_fire"])
    /\ turn' = turn + 1
    /\ NestedUnchanged

\* The page, having added the vertex, calls the slot it was given for cells
\* added; what the slot calls runs within that call of the engine.
DoNestedSlot ==
    /\ InLoop
    /\ nested.client # "start"
    /\ widget.slot_log = <<>>
    /\ LET args == <<"[v1]">>
           w1 == AsyncSlot(World, "on_cells_added", args)
           w2 == [w1 EXCEPT !.wid.slot_log =
                      Append(@, [signal |-> "on_cells_added", args |-> args, turn |-> turn,
                                 calls |-> Len(w1.stub_calls) - Len(stub_calls)])]
           w3 == StartIfCalled(w2, Len(stub_calls))
       IN  Commit([w3 EXCEPT !.nested.in_frame = w3.nested.pc = "waiting"],
                  [name |-> "slot", signal |-> "on_cells_added"])
    /\ UNCHANGED turn
    /\ NestedUnchanged

\* One turn of the event loop: the single-shot timer of the slot elapses.
DoNestedSingleShot ==
    /\ InLoop
    /\ widget.timers # <<>>
    /\ LET timer == widget.timers[1]
           w1 == SingleShot(World, 1)
           w2 == [w1 EXCEPT !.wid.emit_log =
                      Append(@, [id |-> timer.id, signal |-> timer.signal,
                                 args |-> timer.args, turn |-> turn + 1,
                                 calls |-> Len(w1.stub_calls) - Len(stub_calls)])]
       IN  Commit(StartIfCalled(w2, Len(stub_calls)),
                  [name |-> "emit", signal |-> timer.signal])
    /\ turn' = turn + 1
    /\ NestedUnchanged

\* The handler's exec_() returns and the handler runs to its end.
DoHandlerFinish ==
    /\ nested.pc = "waiting"
    /\ nested.cb.loop = "quit"
    /\ Commit(HandlerFinish(World), [name |-> "handler_finish"])
    /\ UNCHANGED turn
    /\ NestedUnchanged

\* One turn of the event loop: the engine, not inside a call of its own, has
\* evaluated the oldest expression and the result is handed to its callback.
DoDeliverNested ==
    /\ InLoop
    /\ ~nested.in_frame
    /\ js_queue # <<>>
    /\ LET e == Head(js_queue)
       IN  Commit(DeliverNested(EngineEvaluates([World EXCEPT !.js_queue = Tail(@)], e.expr),
                                e.callback, EvalInEngine(e.expr, loaded)),
                  [name |-> "deliver", call |-> e.call])
    /\ turn' = turn + 1
    /\ NestedUnchanged

InitNested ==
    /\ InitObjects
    /\ blocker = NewBlocker(DEFAULT_TIMEOUT, None)
    /\ debug = FALSE
    /\ loaded = TRUE
    /\ widget = ConnectedWidget(HandlerBridge, "stub1")

NextNested ==
    \/ DoClientCall
    \/ DoClientWait
    \/ DoClientResume
    \/ DoOuterTimerFire
    \/ DoInnerTimerFire
    \/ DoNestedSlot
    \/ DoNestedSingleShot
    \/ DoHandlerFinish
    \/ DoDeliverNested

SpecNested == InitNested /\ [][NextNested]_vars

(***************************************************************************)
(* Calls through the gateway, and the delivery of their results.           *)
(***************************************************************************)
Kinds(queue, from) == [i \in 1..(Len(queue) - from) |-> queue[from + i].expr.kind]

\* call_api(result_callback, fn, *args), up to its return or its exception.
DoCallApi(result_callback, fn, args) ==
    /\ Len(calls) < MaxCalls
    /\ LET call == Len(calls) + 1
           w == CallApi(World, result_callback, fn, args, call)
       IN  /\ Commit(w, [name |-> "call_api", call |-> call])
           /\ calls' = Append(calls,
                  [fn |-> fn, args |-> args, result_callback |-> result_callback,
                   debug |-> debug, loaded |-> loaded, turn |-> turn,
                   raised |-> w.raised, returned |-> w.returned,
                   sync |-> Len(w.stub_calls) - Len(stub_calls),
                   submitted |-> Kinds(w.js_queue, Len(js_queue)),
                   delivered |-> 0, result |-> Nothing, delivered_turn |-> 0])
    /\ UNCHANGED <<hist, first_value, exceptions, debug, loaded, turn>>

\* One turn of the event loop: the engine has evaluated the oldest submitted
\* expression and its result is handed to the callback given to eval_js.  An
\* exception that leaves the callback ends in the loop's exception hook.
DoDeliver ==
    /\ js_queue # <<>>
    /\ LET e == Head(js_queue)
           w == Deliver(EngineEvaluates([World EXCEPT !.js_queue = Tail(@)], e.expr),
                        e.callback, EvalInEngine(e.expr, loaded))
           invoked == Len(w.stub_calls) - Len(stub_calls)
       IN  /\ Commit(w, [name |-> "deliver", call |-> e.call])
           /\ exceptions' = IF w.raised # NoError THEN Append(exceptions, w.raised)
                            ELSE exceptions
           /\ calls' = [calls EXCEPT ![e.call] =
                  [@ EXCEPT !.submitted = @ \o Kinds(w.js_queue, Len(js_queue) - 1),
                            !.delivered = @ + invoked,
                            !.result = IF invoked > 0
                                       THEN Some(w.stub_calls[Len(w.stub_calls)].args)
                                       ELSE @,
                            !.delivered_turn = IF invoked > 0 THEN turn + 1 ELSE @]]
    /\ turn' = turn + 1
    /\ UNCHANGED <<hist, first_value, debug, loaded>>

InitApi ==
    /\ InitCommon
    /\ blocker = NewBlocker(DEFAULT_TIMEOUT, None)
    /\ debug \in BOOLEAN
    /\ loaded \in BOOLEAN

(***************************************************************************)
(* SpecApi: calls through call_api whose result goes to a blocker or to a  *)
(* plain callable, with and without the debug flag, on a loaded and on an  *)
(* unloaded page.                                                          *)
(***************************************************************************)
NextApi ==
    \/ \E result_callback \in {"cb", "stub1"}, fn \in Fns, args \in ArgLists :
           DoCallApi(result_callback, fn, args)
    \/ DoDeliver
    \/ DoBlockerWait
    \/ DoTimerFire
    \/ DoBlockerWaitResume

SpecApi == InitApi /\ [][NextApi]_vars

(***************************************************************************)
(* SpecWrappers: the operation wrappers of the api, get_cell_bounds among  *)
(* them, with and without the debug flag.                                  *)
(***************************************************************************)
\* get_cell_bounds(result_callback, cell_id), up to its return or its exception.
DoGetCellBounds(result_callback, cell_id) ==
    /\ Len(calls) < MaxCalls
    /\ LET call == Len(calls) + 1
           w == GetCellBounds(World, result_callback, cell_id, call)
       IN  /\ Commit(w, [name |-> "get_cell_bounds", call |-> call])
           /\ calls' = Append(calls,
                  [fn |-> "getCellBounds", args |-> <<cell_id>>,
                   result_callback |-> result_callback,
                   debug |-> debug, loaded |-> loaded, turn |-> turn,
                   raised |-> w.raised, returned |-> w.returned,
                   sync |-> Len(w.stub_calls) - Len(stub_calls),
                   submitted |-> Kinds(w.js_queue, Len(js_queue)),
                   delivered |-> 0, result |-> Nothing, delivered_turn |-> 0])
    /\ UNCHANGED <<hist, first_value, exceptions, debug, loaded, turn>>

NextWrappers ==
    \/ \E result_callback \in CellBoundCallers, fn \in {"insertVertex", "getCellCount"} :
           DoCallApi(result_callback, fn, <<"10">>)
    \/ \E result_callback \in CellBoundCallers : DoGetCellBounds(result_callback, "v1")
    \/ DoDeliver

SpecWrappers == InitApi /\ [][NextWrappers]_vars

(***************************************************************************)
(* SpecTerminal: set_edge_terminal with valid and invalid terminal types,  *)
(* with and without the debug flag.                                        *)
(***************************************************************************)
TerminalTypes == {SOURCE_TERMINAL_CELL, TARGET_TERMINAL_CELL, "middle", None}

\* set_edge_terminal(result_callback, "e1", terminal_type, "v2", port_name),
\* up to its return or its exception.
DoSetEdgeTerminal(result_callback, terminal_type, port_name) ==
    /\ Len(calls) < MaxCalls
    /\ LET call == Len(calls) + 1
           w == SetEdgeTerminal(World, result_callback, "e1", terminal_type, "v2",
                                port_name, call)
       IN  /\ Commit(w, [name |-> "set_edge_terminal", call |-> call])
           /\ calls' = Append(calls,
                  [fn |-> "setEdgeTerminal",
                   args |-> <<"e1", terminal_type, "v2", port_name>>,
                   result_callback |-> result_callback,
                   debug |-> debug, loaded |-> loaded, turn |-> turn,
                   raised |-> w.raised, returned |-> w.returned,
                   sync |-> Len(w.stub_calls) - Len(stub_calls),
                   submitted |-> Kinds(w.js_queue, Len(js_queue)),
                   delivered |-> 0, result |-> Nothing, delivered_turn |-> 0])
    /\ UNCHANGED <<hist, first_value, exceptions, debug, loaded, turn>>

NextTerminal ==
    \/ \E result_callback \in {"stub1", "stub2"}, terminal_type \in TerminalTypes,
          port_name \in {None, "port"} :
           DoSetEdgeTerminal(result_callback, terminal_type, port_name)
    \/ DoDeliver

SpecTerminal == InitApi /\ [][NextTerminal]_vars

(***************************************************************************)
(* SpecApiHandlers: the client hands the page its handlers through the     *)
(* api and resizes the container, with and without the debug flag; the     *)
(* page evaluates the calls and notifies events.                           *)
(***************************************************************************)
\* The positional arguments of a call of a handler method: none, the
\* callback alone, the callback and the slot of the signal, the callback and
\* a function of the page's own.
HandlerArguments(name) ==
    {<<>>, <<"stub1">>, <<"stub1", HandlerMethod(name).slot>>,
     <<"stub1", "console.log">>}

ResizeArguments == {<<"640">>, <<"640", "480">>, <<"stub1", "640", "480">>}

CallRecord(w, fn, args, result_callback) ==
    [fn |-> fn, args |-> args, result_callback |-> result_callback,
     debug |-> debug, loaded |-> loaded, turn |-> turn,
     raised |-> w.raised, returned |-> w.returned,
     sync |-> Len(w.stub_calls) - Len(stub_calls),
     submitted |-> Kinds(w.js_queue, Len(js_queue)),
     delivered |-> 0, result |-> Nothing, delivered_turn |-> 0]

\* api.on_cells_added(...) and its siblings, up to the return or the exception.
DoApiSetHandler(name, arguments) ==
    /\ Len(calls) < MaxCalls
    /\ LET call == Len(calls) + 1
           w == ApiSetHandler(World, name, arguments, call)
       IN  /\ Commit(w, [name |-> "api_set_handler", method |-> name, call |-> call])
           /\ calls' = Append(calls, CallRecord(w, HandlerMethod(name).fn, arguments, None))
    /\ UNCHANGED <<hist, first_value, exceptions, debug, loaded, turn>>

\* api.resize_container(...), up to the return or the exception.
DoApiResizeContainer(arguments) ==
    /\ Len(calls) < MaxCalls
    /\ LET call == Len(calls) + 1
           w == ApiResizeContainer(World, arguments, call)
       IN  /\ Commit(w, [name |-> "resize_container", call |-> call])
           /\ calls' = Append(calls, CallRecord(w, "resizeContainer", arguments, None))
    /\ UNCHANGED <<hist, first_value, exceptions, debug, loaded, turn>>

ClientHandlerMethods == {"on_cells_added", "on_cells_bounds_changed", "set_double_click_handler"}

NextApiHandlers ==
    \/ \E name \in ClientHandlerMethods :
           \E arguments \in HandlerArguments(name) : DoApiSetHandler(name, arguments)
    \/ \E arguments \in ResizeArguments : DoApiResizeContainer(arguments)
    \/ DoDeliver
    \/ \E name \in ClientHandlerMethods :
           \E args \in Payloads(HandlerMethod(name).signal) :
               DoEngineEvent(HandlerMethod(name).signal, args)

SpecApiHandlers == InitApi /\ [][NextApiHandlers]_vars

(***************************************************************************)
(* Claims about the barrier's counting.                                    *)
(***************************************************************************)
\* C1: for every n >= 1, a barrier whose increments sum to n is crossed exactly
\* when wait() has been accepted and the barrier has been invoked n times, in
\* whichever order the invocations and the wait() came; it crosses once, and
\* every registered continuation has then run once per registration and has
\* not run at all before.
C1_CrossesOnceAfterWaitAndNCalls ==
    LET n == hist.inc_total
    IN  n >= 1 /\ hist.slots = 0 =>
            /\ barrier.crossed <=> (hist.waited /\ hist.invocations = n)
            /\ hist.crossings = IF barrier.crossed THEN 1 ELSE 0
            /\ \A t \in Stubs :
                   Count(stub_calls, t) = IF barrier.crossed THEN hist.registered[t] ELSE 0

\* The barrier crossed at its n-th invocation, n > 1, after wait(), and ran a continuation.
C1_Witness ==
    /\ hist.inc_total = MaxPending
    /\ hist.invocations = MaxPending
    /\ last_op.name = "call"
    /\ barrier.crossed
    /\ Len(stub_calls) >= 1

\* The barrier crossed inside wait(), all invocations having come before it.
C1_WitnessCallsBeforeWait ==
    /\ hist.inc_total = MaxPending
    /\ last_op.name = "wait"
    /\ barrier.crossed
    /\ Len(stub_calls) >= 1

(***************************************************************************)
(* Claims about the blocker.                                               *)
(***************************************************************************)
FirstCall(log, target) ==
    log[CHOOSE i \in DOMAIN log :
            /\ log[i].target = target
            /\ \A j \in 1..(i - 1) : log[j].target # target]

Carries(exception, part) == \E i \in 2..Len(exception) : exception[i] = part

\* C3: once the blocker has been invoked twice or more, it is still marked
\* called and still holds the arguments of its first invocation, and every
\* invocation after the first raised CallbackCalledTwiceError, with or without
\* a wait() between the invocations.
C3_SecondCallRaisesAndKeepsFirst ==
    Count(stub_calls, "cb") >= 2 =>
        /\ blocker.called
        /\ blocker.args = Some(FirstCall(stub_calls, "cb").args)
        /\ blocker.kwargs = Some(<<>>)
        /\ last_op.name = "blocker_call" => raised = ErrCalledTwice

\* A second invocation, with other arguments than the first, after a wait() returned.
C3_Witness ==
    /\ Count(stub_calls, "cb") = 2
    /\ last_op.name = "blocker_call"
    /\ last_op.args # FirstCall(stub_calls, "cb").args
    /\ hist.wait_between
    /\ raised = ErrCalledTwice

\* A second invocation with no wait() at all.
C3_WitnessNoWait ==
    /\ Count(stub_calls, "cb") = 2
    /\ last_op.name = "blocker_call"
    /\ ~hist.wait_between
    /\ blocker.loop = "idle"
    /\ raised = ErrCalledTwice

IsTimeoutError(exception, cb) ==
    /\ exception # NoError
    /\ exception[1] = "TimeoutError"
    /\ Carries(exception, cb.timeout)
    /\ Truthy(cb.msg) => Carries(exception, cb.msg)

\* C4 as claimed: a wait() during which the timer fired before any invocation
\* of the callback ends by raising TimeoutError, the blocker still not called.
C4_TimerFiredFirstThenTimeoutError ==
    (last_op.name = "blocker_wait_return" /\ last_op.timer_fired) =>
        /\ IsTimeoutError(raised, blocker)
        /\ ~blocker.called
        /\ blocker.args = Nothing
        /\ blocker.kwargs = Nothing

\* C4 (amended): a wait() during which the timer fired, and at whose resumption
\* the callback has still not been invoked, ends by raising TimeoutError whose
\* message carries the configured timeout and the diagnostic message if there
\* is one; args and kwargs are still None.  A wait() whose callback was invoked
\* in time, or after the timer but before the resumption, returns normally.
C4_TimeoutErrorUnlessCalledByResumption ==
    last_op.name = "blocker_wait_return" =>
        /\ (last_op.timer_fired /\ ~blocker.called) =>
               /\ IsTimeoutError(raised, blocker)
               /\ blocker.args = Nothing
               /\ blocker.kwargs = Nothing
        /\ blocker.called => raised = NoError

\* A wait() of a blocker with a diagnostic message that timed out.
C4_Witness ==
    /\ last_op.name = "blocker_wait_return"
    /\ last_op.timer_fired
    /\ ~blocker.called
    /\ blocker.msg = "diag"
    /\ blocker.timeout = DEFAULT_TIMEOUT
    /\ raised = <<"TimeoutError", "Callback wasn't called after ", "1000", "ms.", "\n> ", "diag">>

(***************************************************************************)
(* Claims about a blocker chained to a barrier.                            *)
(***************************************************************************)
\* C2: with the blocker registered once as continuation of a barrier whose
\* increments sum to n >= 1, the blocker is invoked exactly once, and it is
\* invoked exactly when the barrier's wait() has been accepted and the n-th
\* invocation has reached the barrier, never before; a wait() of the blocker
\* then returns normally if the n invocations and the barrier's wait() have
\* come by the time it ends, and raises TimeoutError otherwise.
C2_BlockerInvokedOnceAtCrossing ==
    LET n == hist.inc_total
        all_arrived == hist.waited /\ hist.invocations = n
    IN  (n >= 1 /\ hist.registered["cb"] = 1) =>
            /\ Count(stub_calls, "cb") = IF all_arrived THEN 1 ELSE 0
            /\ blocker.called <=> all_arrived
            /\ last_op.name = "blocker_wait_return" =>
                   IF all_arrived
                   THEN raised = NoError
                   ELSE IsTimeoutError(raised, blocker)

\* The blocker's wait() blocked, the last of n > 1 completions reached the
\* waiting barrier inside it, and the wait() returned normally.
C2_Witness ==
    /\ hist.registered["cb"] = 1
    /\ hist.inc_total = MaxPending
    /\ hist.invocations = MaxPending
    /\ hist.waited
    /\ last_op.name = "blocker_wait_return"
    /\ last_op.blocked
    /\ ~last_op.timer_fired
    /\ raised = NoError
    /\ blocker.args = Some(<<>>)

\* Fewer than n completions arrived and the blocker's wait() timed out.
C2_WitnessTimeout ==
    /\ hist.registered["cb"] = 1
    /\ hist.inc_total = MaxPending
    /\ hist.invocations = MaxPending - 1
    /\ hist.waited
    /\ last_op.name = "blocker_wait_return"
    /\ raised # NoError

(***************************************************************************)
(* Claims about the gateway.                                               *)
(***************************************************************************)
Pending(call) == Cardinality({i \in DOMAIN js_queue : js_queue[i].call = call})

\* C5: in non-debug mode the result callback is not invoked while call_api
\* runs; it is invoked once, from a later turn of the event loop, with what the
\* engine evaluates that call's expression to (until then the evaluation that
\* will invoke it is the only one submitted for the call).
C5_ResultDeliveredOnceOnLaterTurn ==
    \A id \in DOMAIN calls :
        LET c == calls[id]
        IN  ~c.debug =>
                /\ c.sync = 0
                /\ c.returned = c.result_callback
                /\ c.delivered + Pending(id) = 1
                /\ c.delivered = 1 =>
                       /\ c.delivered_turn > c.turn
                       /\ c.result = Some(<<EvalInEngine(CallExpr(c.fn, c.args), c.loaded)>>)

\* Two calls of different functions are in flight at once; the first got its result.
C5_Witness ==
    /\ Len(calls) = 2
    /\ ~debug
    /\ calls[1].fn = "insertVertex"
    /\ calls[2].fn = "getCellCount"
    /\ calls[1].turn = calls[2].turn
    /\ calls[1].delivered = 1
    /\ calls[1].result = Some(<<"2">>)
    /\ Pending(2) = 1

\* C6 as claimed: a debug-mode call of a function the page does not define
\* returns from call_api, the existence probe's completion raises the error that
\* names the function, the call itself is never submitted and the result
\* callback never invoked, so that a blocker given as result callback stays
\* uncalled.
C6_DebugMissingFunctionFailsAtProbe ==
    \A id \in DOMAIN calls :
        LET c == calls[id]
        IN  (c.debug /\ c.loaded /\ c.fn \notin Exports) =>
                /\ c.raised = NoError
                /\ "call" \notin Range(c.submitted)
                /\ c.delivered = 0
                /\ c.sync = 0
                /\ Pending(id) = 0 => ErrFunctionNotFound(c.fn) \in Range(exceptions)
                /\ (\A other \in DOMAIN calls : calls[other].result_callback = "cb" => other = id)
                       => ~blocker.called

\* C7: a debug-mode call on a page that is not loaded fails with an error,
\* without an existence probe, without the call being submitted and without
\* the result callback being invoked, then or later.
C7_DebugUnloadedFails ==
    \A id \in DOMAIN calls :
        LET c == calls[id]
        IN  (c.debug /\ ~c.loaded) =>
                /\ c.raised # NoError
                /\ "exists" \notin Range(c.submitted)
                /\ "call" \notin Range(c.submitted)
                /\ c.delivered = 0
                /\ c.sync = 0
                /\ c.result = Nothing

\* Two debug-mode calls on a page that is not loaded have failed; nothing
\* was submitted and the callables were not called.
C7_Witness ==
    /\ debug
    /\ ~loaded
    /\ Len(calls) = 2
    /\ calls[1].fn = "getCellCount"
    /\ calls[1].result_callback = "cb"
    /\ calls[2].result_callback = "stub1"
    /\ calls[1].raised # NoError
    /\ calls[2].raised # NoError
    /\ js_queue = <<>>
    /\ stub_calls = <<>>
    /\ ~blocker.called

\* C8: in non-debug mode a call of a function the page does not define
\* submits the call alone, no probe; call_api raises nothing; the result
\* callback is invoked once, with a null result.
C8_NonDebugMissingFunctionGivesNull ==
    \A id \in DOMAIN calls :
        LET c == calls[id]
        IN  (~c.debug /\ c.fn \notin Exports) =>
                /\ c.submitted = <<"call">>
                /\ c.raised = NoError
                /\ c.sync = 0
                /\ c.delivered + Pending(id) = 1
                /\ c.delivered = 1 => c.result = Some(<<None>>)

\* The blocker waited for a call of BOOM on a loaded page and got None.
C8_Witness ==
    /\ Len(calls) = 1
    /\ ~debug
    /\ loaded
    /\ calls[1].fn = "BOOM"
    /\ calls[1].result_callback = "cb"
    /\ calls[1].delivered = 1
    /\ blocker.args = Some(<<None>>)
    /\ last_op.name = "blocker_wait_return"
    /\ last_op.blocked
    /\ raised = NoError

(***************************************************************************)
(* Claims about the stored-result slots.                                   *)
(***************************************************************************)
\* C9: once the slot of key k has been invoked with v, get_result(k) and the
\* slot's value give v; before that, reading the value fails with an
\* AssertionError.
C9_StoredResultReturnsWhatItGot ==
    \A k \in DOMAIN barrier.stored_results :
        /\ first_value[k] # Nothing =>
               /\ GetResult(World, k).raised = NoError
               /\ GetResult(World, k).returned = first_value[k][1]
               /\ StoredResultValue(World, k).returned = first_value[k][1]
        /\ first_value[k] = Nothing =>
               /\ GetResult(World, k).raised # NoError
               /\ GetResult(World, k).raised[1] = "AssertionError"
        /\ (last_op.name = "get_result" /\ last_op.key = k) =>
               IF first_value[k] # Nothing
               THEN raised = NoError /\ returned = first_value[k][1]
               ELSE raised # NoError /\ raised[1] = "AssertionError"

\* get_result("foo") gave "7" while the other slot holds another value.
C9_Witness ==
    /\ last_op.name = "get_result"
    /\ last_op.key = "foo"
    /\ first_value["foo"] = Some("7")
    /\ first_value["bar"] = Some("blue")
    /\ returned = "7"
    /\ raised = NoError

\* get_result on a slot not yet invoked failed.
C9_WitnessUnset ==
    /\ last_op.name = "get_result"
    /\ last_op.key = "bar"
    /\ "bar" \in DOMAIN barrier.stored_results
    /\ first_value["bar"] = Nothing
    /\ raised = <<"AssertionError", "stored results key: ", "'", "bar", "'">>

\* C10: invoking a slot that was invoked before raises the double-write
\* error and changes neither the barrier (its slots with their values, its
\* pending count, its state) nor what the continuations have seen.
C10_SecondSlotCallRaisesAndChangesNothing ==
    [][(/\ last_op'.name = "slot_call"
        /\ barrier.stored_results[last_op'.key].called)
           => /\ raised' = ErrDoubleWrite
              /\ barrier' = barrier
              /\ stub_calls' = stub_calls]_vars

\* A second invocation, with another value, of a slot of a barrier that is
\* still waiting for other completions.
C10_Witness ==
    /\ last_op.name = "slot_call"
    /\ raised = ErrDoubleWrite
    /\ barrier.stored_results[last_op.key].value # last_op.value
    /\ barrier.waiting_on_barrier
    /\ barrier.calls_pending = 1

(***************************************************************************)
(* Claims about the barrier's states.                                      *)
(***************************************************************************)
\* C11: every slot created, by create_stored_result_callback or by indexing
\* with a new key, counts as one pending call and every accepted invocation,
\* direct or through a slot, takes one off: the pending count is k + m minus
\* the invocations, and the barrier is crossed exactly when wait() was
\* accepted and the (k+m)-th invocation has happened.
C11_SlotsCountAsPendingCalls ==
    LET k == hist.inc_total
        m == hist.slots
    IN  /\ m = Cardinality(DOMAIN barrier.stored_results)
        /\ barrier.calls_pending = k + m - hist.invocations
        /\ barrier.crossed <=> (hist.waited /\ hist.invocations = k + m)
        /\ hist.crossings = IF barrier.crossed THEN 1 ELSE 0
        /\ Count(stub_calls, "stub1") =
               IF barrier.crossed THEN hist.registered["stub1"] ELSE 0

\* increment(1) and two slots; the barrier crossed on the third completion,
\* a slot's, after a direct invocation and the other slot's.
C11_Witness ==
    /\ hist.inc_total = 1
    /\ hist.slots = 2
    /\ hist.invocations = 3
    /\ hist.waited
    /\ barrier.crossed
    /\ last_op.name = "slot_call"
    /\ raised = NoError
    /\ \A key \in Keys : barrier.stored_results[key].called
    /\ Count(stub_calls, "stub1") = 1

\* A slot created by indexing with a new key is counted.
C11_WitnessGetItem ==
    /\ last_op.name = "getitem"
    /\ raised = NoError
    /\ hist.slots = 2
    /\ hist.inc_total = 0
    /\ barrier.calls_pending = 2

\* C12: on a barrier that is waiting or crossed, increment(n) and
\* create_stored_result_callback with a new key raise "can't increment
\* barrier after wait" and leave the barrier, its pending count and its slots
\* as they were.
C12_NoIncrementAfterWait ==
    [][(/\ barrier.waiting_on_barrier \/ barrier.crossed
        /\ \/ last_op'.name = "increment"
           \/ /\ last_op'.name = "create_stored_result_callback"
              /\ last_op'.key \notin DOMAIN barrier.stored_results)
           => /\ raised' = ErrIncrementAfterWait
              /\ barrier' = barrier
              /\ hist' = hist]_vars

\* A slot was refused on a waiting barrier that still expects a call.
C12_Witness ==
    /\ last_op.name = "create_stored_result_callback"
    /\ raised = ErrIncrementAfterWait
    /\ barrier.waiting_on_barrier
    /\ barrier.calls_pending = 1
    /\ last_op.key \notin DOMAIN barrier.stored_results

\* An increment was refused on a crossed barrier.
C12_WitnessCrossed ==
    /\ last_op.name = "increment"
    /\ last_op.n = 2
    /\ raised = ErrIncrementAfterWait
    /\ barrier.crossed
    /\ barrier.calls_pending = 0

\* C13: invoking a crossed barrier raises "unexpected call after crossing
\* barrier"; the pending count stays and no continuation runs again.
C13_CallAfterCrossingRaises ==
    [][(barrier.crossed /\ last_op'.name = "call")
           => /\ raised' = ErrCallAfterCrossing
              /\ barrier' = barrier
              /\ stub_calls' = stub_calls
              /\ hist' = hist]_vars

\* The barrier crossed after two calls, ran two continuations, and was
\* then invoked again.
C13_Witness ==
    /\ last_op.name = "call"
    /\ raised = ErrCallAfterCrossing
    /\ barrier.crossed
    /\ barrier.calls_pending = 0
    /\ hist.invocations = 2
    /\ Len(stub_calls) = 2

\* C14: wait() on an editing barrier with no call pending crosses within
\* the call: when it returns the barrier is crossed and not waiting, and every
\* registered continuation has run once per registration.
C14_WaitWithNothingPendingCrosses ==
    [][(/\ ~barrier.waiting_on_barrier
        /\ ~barrier.crossed
        /\ barrier.calls_pending = 0
        /\ last_op'.name = "wait")
           => /\ raised' = NoError
              /\ barrier'.crossed
              /\ ~barrier'.waiting_on_barrier
              /\ barrier'.to_execute_after_barrier = <<>>
              /\ \A t \in Stubs : Count(stub_calls', t) = hist.registered[t]
              /\ Len(stub_calls') = Len(barrier.to_execute_after_barrier)]_vars

\* wait() crossed a barrier that was never incremented and ran its continuation.
C14_Witness ==
    /\ last_op.name = "wait"
    /\ raised = NoError
    /\ hist.inc_total = 0
    /\ hist.invocations = 0
    /\ barrier.crossed
    /\ ~barrier.waiting_on_barrier
    /\ Len(stub_calls) = 1

\* C15: every registered continuation has run once per registration as soon
\* as the barrier is crossed and not at all before, whether it was registered
\* before the crossing or after it; a registration on a crossed barrier runs
\* the new continuation within the call and nothing else.
C15_LateRegistrationRunsOnce ==
    /\ \A t \in Stubs :
           Count(stub_calls, t) = IF barrier.crossed THEN hist.registered[t] ELSE 0
    /\ barrier.crossed => barrier.to_execute_after_barrier = <<>>
    /\ (last_op.name = "register" /\ barrier.crossed) =>
           /\ raised = NoError
           /\ stub_calls[Len(stub_calls)].target = last_op.to_call

\* stub1 ran at the crossing, stub2 when it was registered afterwards.
C15_Witness ==
    /\ last_op.name = "register"
    /\ last_op.to_call = "stub2"
    /\ barrier.crossed
    /\ hist.inc_total = 1
    /\ Len(stub_calls) = 2
    /\ stub_calls[1].target = "stub1"
    /\ stub_calls[2].target = "stub2"

\* What a continuation registered with the given flag is called with.
ExpectedCall(registration) ==
    [target |-> registration.to_call,
     args |-> IF registration.pass_self THEN <<"barrier">> ELSE <<>>]

\* C16: the continuations run in the order of their registration; one
\* registered with pass_self gets the barrier as its only argument, the others
\* get no argument.
C16_ContinuationsRunInOrder ==
    stub_calls = IF barrier.crossed
                 THEN [i \in 1..Len(hist.order) |-> ExpectedCall(hist.order[i])]
                 ELSE <<>>

\* Two continuations registered before the crossing, the first with pass_self.
C16_Witness ==
    /\ barrier.crossed
    /\ hist.inc_total = 2
    /\ last_op.name = "call"
    /\ hist.order = <<[to_call |-> "stub2", pass_self |-> TRUE],
                      [to_call |-> "stub1", pass_self |-> FALSE]>>
    /\ stub_calls = <<[target |-> "stub2", args |-> <<"barrier">>],
                      [target |-> "stub1", args |-> <<>>]>>

(***************************************************************************)
(* Claims about the scopes, and about the blocker's wait().                *)
(***************************************************************************)
\* C17: leaving a blocker's scope after the body raised leaves the blocker
\* as it was (no timer armed, no event loop run) and the body's exception goes
\* on; leaving it without an exception waits: it returns at once without
\* raising if the callback was invoked, else it enters the event loop, and a
\* wait that resumes with the callback invoked returns without raising.
C17_BlockerScopeWaitsUnlessBodyRaised ==
    [][/\ last_op'.name = "blocker_exit" =>
              IF last_op'.value # NoError
              THEN blocker' = blocker /\ raised' = last_op'.value
              ELSE IF blocker.called
              THEN blocker' = blocker /\ raised' = NoError
              ELSE /\ blocker'.loop = "running"
                   /\ blocker.timer # None => blocker'.timer = "active"
                   /\ raised' = NoError
       /\ (last_op'.name = "blocker_wait_return" /\ blocker.called) =>
              raised' = NoError]_vars

\* The body raised before the callback was invoked: nothing waited.
C17_Witness ==
    /\ last_op.name = "blocker_exit"
    /\ last_op.value = BodyError
    /\ raised = BodyError
    /\ ~blocker.called
    /\ blocker.loop = "idle"
    /\ blocker.timer = "stopped"
    /\ blocker.connections = 0

\* The body invoked the callback once and did not raise.
C17_WitnessCalledInside ==
    /\ last_op.name = "blocker_exit"
    /\ last_op.value = NoError
    /\ raised = NoError
    /\ blocker.called
    /\ Count(stub_calls, "cb") = 1
    /\ blocker.loop = "idle"

\* C18: leaving a barrier's scope calls wait() whatever the body did: the
\* exit raises what wait() raises on a barrier that is waiting, crossed or
\* invoked too often, and else leaves the barrier waiting, or crossed if no call
\* is pending, never editing; the body's exception goes on after it.
C18_BarrierScopeAlwaysWaits ==
    [][last_op'.name = "barrier_exit" =>
           IF barrier.crossed \/ barrier.waiting_on_barrier \/ barrier.calls_pending < 0
           THEN /\ last_op'.exit_raised # NoError
                /\ raised' = last_op'.exit_raised
                /\ barrier' = barrier
           ELSE /\ last_op'.exit_raised = NoError
                /\ raised' = last_op'.value
                /\ barrier'.waiting_on_barrier \/ barrier'.crossed
                /\ barrier'.crossed <=> barrier.calls_pending = 0
                /\ hist'.waited]_vars

\* The body raised with a call pending: the barrier waits all the same.
C18_Witness ==
    /\ last_op.name = "barrier_exit"
    /\ last_op.value = BodyError
    /\ last_op.exit_raised = NoError
    /\ raised = BodyError
    /\ barrier.waiting_on_barrier
    /\ barrier.calls_pending = 1

\* C19: wait() on a blocker that was invoked returns at once: the blocker,
\* its timer and its event loop are left as they were and nothing is raised.
C19_WaitAfterCallReturnsAtOnce ==
    [][(/\ blocker.called
        /\ blocker.loop = "idle"
        /\ last_op'.name \in {"blocker_wait_enter", "blocker_wait_return"})
           => /\ last_op'.name = "blocker_wait_return"
              /\ ~last_op'.blocked
              /\ blocker' = blocker
              /\ raised' = NoError]_vars

\* wait() after the only invocation, on a blocker with a timeout.
C19_Witness ==
    /\ last_op.name = "blocker_wait_return"
    /\ ~last_op.blocked
    /\ blocker.called
    /\ blocker.timeout = DEFAULT_TIMEOUT
    /\ blocker.loop = "idle"
    /\ blocker.connections = 0
    /\ raised = NoError
    /\ Count(stub_calls, "cb") = 1

\* C20: an invocation of a blocker raises CallbackCalledTwiceError exactly
\* when an invocation came before it, and nothing else; the first invocation
\* is accepted also after a wait() that timed out.
C20_OnlyRepeatedCallRaises ==
    last_op.name = "blocker_call" =>
        /\ raised = IF Count(stub_calls, "cb") >= 2 THEN ErrCalledTwice ELSE NoError
        /\ blocker.called
        /\ blocker.args = Some(FirstCall(stub_calls, "cb").args)

\* The first invocation came after wait() had ended with a TimeoutError.
C20_Witness ==
    /\ last_op.name = "blocker_call"
    /\ Count(stub_calls, "cb") = 1
    /\ raised = NoError
    /\ hist.timer_fired
    /\ ~hist.wait_between
    /\ blocker.loop = "idle"
    /\ blocker.timeout = "0"
    /\ blocker.called

(***************************************************************************)
(* Claims about the slots' keys and about refused waits.                   *)
(***************************************************************************)
\* C21: at most one handler is connected to the double-click channel and to
\* the popup-menu channel; set_double_click_handler and set_popup_menu_handler
\* never raise, leave connected exactly the handler given (none for None),
\* and an event emitted while nothing is connected invokes no handler.
C21_AtMostOneHandler ==
    /\ [](\A signal \in {"on_double_click", "on_popup_menu"} : Len(widget.conn[signal]) <= 1)
    /\ [][/\ \A name \in {"double_click", "popup_menu"} :
                (last_op'.name = "set_" \o name \o "_handler")
                    => (/\ raised' = NoError
                        /\ widget'.conn["on_" \o name] =
                               IF last_op'.handler = None THEN <<>> ELSE <<last_op'.handler>>)
          /\ (last_op'.name = "emit")
                    => (/\ Len(stub_calls') = Len(stub_calls) + Len(widget.conn[last_op'.signal])
                        /\ \A i \in DOMAIN widget.conn[last_op'.signal] :
                               stub_calls'[Len(stub_calls) + i].target =
                                   widget.conn[last_op'.signal][i])]_vars

\* A second handler was set after the first one had been invoked for an event.
C21_Witness ==
    /\ last_op.name = "set_double_click_handler"
    /\ last_op.handler = "stub2"
    /\ widget.conn["on_double_click"] = <<"stub2">>
    /\ Len(stub_calls) = 1
    /\ stub_calls[1].target = "stub1"
    /\ Len(widget.emit_log) = 1

\* After the handler was set to None a double click invoked no handler.
C21_WitnessNone ==
    /\ last_op.name = "emit"
    /\ last_op.signal = "on_double_click"
    /\ widget.conn["on_double_click"] = <<>>
    /\ Len(widget.emit_log) = 2
    /\ widget.emit_log[1].calls = 1
    /\ widget.emit_log[2].calls = 0
    /\ Len(stub_calls) = 1

\* The invocations of the slots and the emissions of their signals agree:
\* no observer is called during a slot invocation, and every invocation has
\* either its timer pending or exactly one emission, of the same signal, on a
\* later turn of the event loop, with the arguments given by args_of.
EmissionsFollowInvocations(args_of(_)) ==
    /\ \A id \in DOMAIN widget.slot_log :
           /\ widget.slot_log[id].calls = 0
           /\ Cardinality({i \in DOMAIN widget.timers : widget.timers[i].id = id})
                + Cardinality({i \in DOMAIN widget.emit_log : widget.emit_log[i].id = id}) = 1
    /\ \A i \in DOMAIN widget.emit_log :
           LET emission == widget.emit_log[i]
               slot == widget.slot_log[emission.id]
           IN  /\ emission.turn > slot.turn
               /\ emission.signal = slot.signal
               /\ emission.args = args_of(slot)

ArgsAsInvoked(slot) == slot.args

ArgsAsConverted(slot) == ConvertArgs(slot.signal, slot.args)

\* C22 as claimed: the signal of a bridge slot is not emitted during the slot
\* invocation but on a later turn of the event loop, exactly once per
\* invocation, with the very arguments of that invocation.
C22_EmittedWithSlotArguments == EmissionsFollowInvocations(ArgsAsInvoked)

\* C22: the signal of a bridge slot is not emitted during the slot invocation
\* but on a later turn of the event loop, exactly once per invocation, with
\* the arguments of that invocation as converted by the bridge's js_to_py_args
\* hook of that signal where it has one (on_cells_bounds_changed: the bounds
\* of each cell become a CellBounds record).
C22_EmittedOnceOnLaterTurn == EmissionsFollowInvocations(ArgsAsConverted)

\* Two slots were invoked in the same turn; both signals were emitted later,
\* each to the two observers of the bridge.
C22_Witness ==
    /\ Len(widget.slot_log) = 2
    /\ widget.slot_log[1].turn = 0
    /\ widget.slot_log[2].turn = 0
    /\ widget.slot_log[1].signal = "on_cells_added"
    /\ widget.slot_log[2].signal = "on_label_changed"
    /\ Len(widget.emit_log) = 2
    /\ widget.timers = <<>>
    /\ Len(stub_calls) = 4
    /\ stub_calls[1].args = widget.slot_log[widget.emit_log[1].id].args

\* The bounds of on_cells_bounds_changed reached the observers as CellBounds records.
C22_WitnessConverted ==
    /\ Len(widget.emit_log) = 1
    /\ widget.emit_log[1].signal = "on_cells_bounds_changed"
    /\ Len(stub_calls) >= 1
    /\ stub_calls[1].args[1]["v1"].type = "CellBounds"
    /\ widget.slot_log[1].args[1]["v1"].x = "1"

\* The result of the call is on its way to the blocker and the engine is
\* free to produce it.
CanBeServed(name) ==
    /\ ~nested.in_frame
    /\ \E i \in DOMAIN js_queue :
           js_queue[i].callback.kind = "target" /\ js_queue[i].callback.name = name

\* C23: a handler of a bridge signal may call the api and wait for the result
\* with a CallbackBlocker of its own while an outer CallbackBlocker waits: a
\* blocked wait(), inner or outer, can always be served without its timeout,
\* the handler never runs inside the engine's call, and a wait() whose timer did
\* not fire returns normally with the result of its call, the outer one after
\* the inner one when the handler began inside it.
C23_NestedWaitsComplete ==
    /\ [](/\ (nested.pc = "waiting" /\ ~nested.cb.called) => CanBeServed("inner_cb")
          /\ (nested.client = "waiting" /\ ~blocker.called) => CanBeServed("cb")
          /\ (nested.began_inside /\ "outer" \in Range(nested.returns))
                 => nested.returns = <<"inner", "outer">>)
    /\ [][/\ (last_op'.name = "handler_finish" /\ ~nested.inner_fired)
                 => (/\ raised' = NoError
                     /\ nested'.cb.args = Some(<<ResultOf("getZoomScale")>>))
          /\ (last_op'.name = "client_resume" /\ ~nested.outer_fired)
                 => (/\ raised' = NoError
                     /\ blocker'.args = Some(<<ResultOf("insertVertex")>>))]_vars

\* The handler began while the outer wait() was blocked; both wait() have
\* returned, the inner one first, each with the result of its call and
\* without a timeout.
C23_Witness ==
    /\ nested.began_inside
    /\ nested.returns = <<"inner", "outer">>
    /\ ~nested.inner_fired
    /\ ~nested.outer_fired
    /\ nested.cb.args = Some(<<"1">>)
    /\ blocker.args = Some(<<"2">>)
    /\ raised = NoError
    /\ js_queue = <<>>

\* The outer blocker got its result while the handler was blocked in its own wait().
C23_WitnessOuterCalledInside ==
    /\ nested.pc = "waiting"
    /\ nested.client = "waiting"
    /\ blocker.called
    /\ blocker.loop = "quit"
    /\ ~nested.cb.called

\* The widget has a page loaded well: the last load finished with ok.
LoadedWell == loaded /\ widget.loads > 0

\* C24 as claimed: once a bridge b is set with set_events_bridge and the page
\* has loaded well, whether b was set before or after the load, every engine
\* notification of each of the eight kinds invokes the slot of that kind,
\* whose emission then calls every observer of b once with the payload.
C24_NotificationsReachObservers ==
    [][(/\ last_op'.name = "engine_event"
        /\ last_op'.signal \in Range(EventSignals)
        /\ LoadedWell
        /\ widget.conn[last_op'.signal] # <<>>)
           => (/\ Len(widget'.timers) = Len(widget.timers) + 1
               /\ widget'.timers[Len(widget'.timers)].signal = last_op'.signal
               /\ Len(widget'.slot_log) = Len(widget.slot_log) + 1)]_vars

\* C25 as claimed: set_events_bridge and set_error_bridge leave only the
\* bridge given connected to the widget's own signals, and an engine event or
\* error emitted afterwards calls only the observers of the bridge set last.
C25_PreviousBridgeDisconnected ==
    [][/\ (last_op'.name = "set_events_bridge")
              => (\A i \in DOMAIN EventSignals :
                      widget'.conn[EventSignals[i]] = <<last_op'.bridge>>)
       /\ (last_op'.name = "set_error_bridge")
              => (widget'.conn["on_error"] = <<last_op'.bridge>>)
       /\ (last_op'.name = "emit" /\ widget.conn[last_op'.signal] # <<>>)
              => (LET connected == widget.conn[last_op'.signal]
                      set_last == connected[Len(connected)]
                  IN  \A i \in (Len(stub_calls) + 1)..Len(stub_calls') :
                          stub_calls'[i].target \in Range(ObserversOf(set_last)))]_vars

\* C26 as claimed: every load that succeeds registers the slots of the
\* bridges with the engine and emits loadFinished(true), also after the page
\* was blanked; a failed load registers nothing and emits loadFinished(false);
\* a double click or popup menu event of a page loaded well invokes the slot,
\* so that the handler set, before the load or after, is called.
C26_HandlersRegisteredOnEveryLoad ==
    [][/\ (last_op'.name = "load_finished" /\ last_op'.ok)
              => (/\ raised' = NoError
                  /\ widget'.registered = Signals \ {"on_error"}
                  /\ widget'.load_finished = Append(widget.load_finished, "true"))
       /\ (last_op'.name = "load_finished" /\ ~last_op'.ok)
              => (/\ raised' = NoError
                  /\ widget'.registered = {}
                  /\ widget'.load_finished = Append(widget.load_finished, "false"))
       /\ (/\ last_op'.name = "engine_event"
           /\ last_op'.signal \in {"on_double_click", "on_popup_menu"}
           /\ LoadedWell)
              => (/\ Len(widget'.timers) = Len(widget.timers) + 1
                  /\ widget'.timers[Len(widget'.timers)].signal = last_op'.signal)]_vars

\* C27 as claimed: call_api and the operation wrappers, get_cell_bounds among
\* them, return without an exception the result_callback they were given,
\* with and without the debug flag.
C27_ReturnsResultCallback ==
    \A call \in DOMAIN calls :
        /\ calls[call].raised = NoError
        /\ calls[call].returned = calls[call].result_callback

\* C28 as claimed: once the barrier has crossed every slot created on it
\* has been invoked and get_result succeeds for every key.
C28_CrossedMeansEverySlotFilled ==
    barrier.crossed =>
        \A key \in DOMAIN barrier.stored_results :
            /\ barrier.stored_results[key].called
            /\ GetResult(World, key).raised = NoError

\* C29: create_stored_result_callback for a key in use raises and changes
\* nothing; indexing by a key in use returns its slot and changes nothing; a
\* key's slot is never dropped or replaced by a fresh one.
C29_KeysAreUnique ==
    [][/\ (/\ last_op'.name = "create_stored_result_callback"
           /\ last_op'.key \in DOMAIN barrier.stored_results)
              => /\ raised' = ErrKeyInUse
                 /\ barrier' = barrier
       /\ (/\ last_op'.name = "getitem"
           /\ last_op'.key \in DOMAIN barrier.stored_results)
              => /\ raised' = NoError
                 /\ returned' = last_op'.key
                 /\ barrier' = barrier
       /\ \A key \in DOMAIN barrier.stored_results :
              /\ key \in DOMAIN barrier'.stored_results
              /\ barrier'.stored_results[key].key = barrier.stored_results[key].key
              /\ barrier.stored_results[key].called =>
                     /\ barrier'.stored_results[key].called
                     /\ barrier'.stored_results[key].value =
                            barrier.stored_results[key].value]_vars

\* A second slot for a key whose slot holds a value was refused.
C29_Witness ==
    /\ last_op.name = "create_stored_result_callback"
    /\ raised = ErrKeyInUse
    /\ last_op.key = "foo"
    /\ barrier.stored_results["foo"].called
    /\ barrier.stored_results["foo"].value = "blue"
    /\ barrier.calls_pending = 1

\* Indexing by a key in use on a waiting barrier gave the slot.
C29_WitnessGetItem ==
    /\ last_op.name = "getitem"
    /\ raised = NoError
    /\ returned = "bar"
    /\ barrier.waiting_on_barrier
    /\ hist.slots = 1
    /\ barrier.calls_pending = 1

\* C30: wait() on a crossed barrier, on a waiting barrier and on an editing
\* barrier with a negative pending count raises, each with its own message,
\* leaves the barrier as it was and runs no continuation.
C30_RefusedWaitChangesNothing ==
    [][(/\ last_op'.name = "wait"
        /\ barrier.crossed \/ barrier.waiting_on_barrier \/ barrier.calls_pending < 0)
           => /\ raised' = IF barrier.crossed THEN ErrWaitCrossed
                           ELSE IF barrier.waiting_on_barrier THEN ErrAlreadyWaiting
                           ELSE ErrCalledTooOften
              /\ barrier' = barrier
              /\ stub_calls' = stub_calls
              /\ hist' = hist]_vars

\* wait() on a barrier invoked once without any increment, a continuation registered.
C30_Witness ==
    /\ last_op.name = "wait"
    /\ raised = ErrCalledTooOften
    /\ barrier.calls_pending = -1
    /\ ~barrier.waiting_on_barrier
    /\ ~barrier.crossed
    /\ Len(barrier.to_execute_after_barrier) = 1
    /\ stub_calls = <<>>

\* wait() on a waiting barrier.
C30_WitnessWaiting ==
    /\ last_op.name = "wait"
    /\ raised = ErrAlreadyWaiting
    /\ barrier.waiting_on_barrier
    /\ barrier.calls_pending = 2

\* wait() on a crossed barrier.
C30_WitnessCrossed ==
    /\ last_op.name = "wait"
    /\ raised = ErrWaitCrossed
    /\ barrier.crossed
    /\ Len(stub_calls) = 1

(***************************************************************************)
(* Claims about the barrier's lifecycle and its pending count.             *)
(***************************************************************************)
\* C31 as claimed: while the barrier is editing or waiting its pending count
\* is never negative.
C31_PendingNeverNegative ==
    ~barrier.crossed => barrier.calls_pending >= 0

\* C31: while the barrier is waiting its pending count is never negative;
\* while it is editing or waiting the count is the increments and slots
\* accepted less the invocations accepted, which is negative while editing
\* once the barrier was invoked more often than that.
C31_PendingNegativeOnlyWhileEditing ==
    /\ barrier.waiting_on_barrier => barrier.calls_pending >= 0
    /\ ~barrier.crossed =>
           barrier.calls_pending = hist.inc_total + hist.slots - hist.invocations

\* An editing barrier with one slot, invoked twice.
C31_Witness ==
    /\ ~barrier.waiting_on_barrier
    /\ ~barrier.crossed
    /\ barrier.calls_pending = -1
    /\ hist.slots = 1
    /\ hist.invocations = 2
    /\ hist.inc_total = 0

(***************************************************************************)
(* Further claims about calls through the gateway.                         *)
(***************************************************************************)
\* C32 as claimed: a debug-mode call of a function the loaded page defines
\* returns from call_api and submits three evaluations, the readiness probe,
\* the existence probe and the call, one after the other; the result
\* callback is invoked once, on a later turn, with what the call evaluates
\* to, as without the debug flag, and never with the result of a probe.
C32_DebugProbesThenCall ==
    \A id \in DOMAIN calls :
        LET c == calls[id]
        IN  (c.debug /\ c.loaded /\ c.fn \in Exports) =>
                /\ c.raised = NoError
                /\ c.sync = 0
                /\ c.delivered <= 1
                /\ c.submitted \in {<<>>} \cup
                       {SubSeq(<<"is_loaded", "exists", "call">>, 1, n) : n \in 1..3}
                /\ Pending(id) <= 1
                /\ Pending(id) = 0 =>
                       /\ Len(c.submitted) = 3
                       /\ c.delivered = 1
                       /\ c.result = Some(<<EvalInEngine(CallExpr(c.fn, c.args), c.loaded)>>)

(***************************************************************************)
(* Further claims about the blocker.                                       *)
(***************************************************************************)
\* C33 as claimed: while a wait() of a blocker with a finite timeout is
\* blocked in the event loop, the blocker's timer is running and connected to
\* the timeout handler, so that the wait() ends by the callback or by the
\* timeout, also when an earlier wait() of the blocker has timed out.
C33_BlockedWaitHasTimerArmed ==
    (blocker.loop = "running" /\ blocker.timeout # None)
        => (blocker.timer = "active" /\ blocker.connections >= 1)

\* C34: the barrier never moves backwards in editing -> waiting -> crossed:
\* it is never both waiting and crossed, a crossed barrier stays crossed under
\* every operation, a late register among them, and a barrier that is waiting,
\* or on which a wait() has succeeded, is waiting or crossed ever after.
C34_LifecycleNeverMovesBack ==
    /\ [](~(barrier.waiting_on_barrier /\ barrier.crossed))
    /\ [][/\ barrier.crossed => (barrier'.crossed /\ ~barrier'.waiting_on_barrier)
          /\ (barrier.waiting_on_barrier \/ hist.waited)
                 => (barrier'.waiting_on_barrier \/ barrier'.crossed)
          /\ (last_op'.name = "wait" /\ raised' = NoError)
                 => (barrier'.waiting_on_barrier \/ barrier'.crossed)]_vars

\* A continuation registered on a crossed barrier ran at once and the
\* barrier is still crossed.
C34_Witness ==
    /\ last_op.name = "register"
    /\ barrier.crossed
    /\ ~barrier.waiting_on_barrier
    /\ hist.crossings = 1
    /\ hist.invocations >= 1
    /\ Len(stub_calls) = 2

\* A refused invocation left a crossed barrier crossed.
C34_WitnessCallAfterCrossing ==
    /\ last_op.name = "call"
    /\ raised = ErrCallAfterCrossing
    /\ barrier.crossed
    /\ hist.slots = 1

\* C35: between operations a crossed barrier has a pending count of exactly 0
\* and no continuation left to run, and a waiting barrier has a pending count
\* of at least 1.
C35_PendingByLifecycle ==
    /\ barrier.crossed
           => (barrier.calls_pending = 0 /\ barrier.to_execute_after_barrier = <<>>)
    /\ barrier.waiting_on_barrier => barrier.calls_pending >= 1

\* A barrier that waited for two calls crossed on the second, ran its
\* continuation and then refused a third call without counting it.
C35_Witness ==
    /\ barrier.crossed
    /\ barrier.calls_pending = 0
    /\ barrier.to_execute_after_barrier = <<>>
    /\ hist.waited
    /\ hist.inc_total + hist.slots = 2
    /\ Len(stub_calls) >= 1
    /\ last_op.name \in {"call", "slot_call"}
    /\ raised = ErrCallAfterCrossing

\* C36: a slot invoked for the first time when its barrier has already
\* crossed raises the barrier's call-after-crossing error and is nevertheless
\* left written, holding the value: a further invocation of the slot raises
\* the double-write error and get_result of its key returns the value.
C36_LateSlotCallKeepsValue ==
    [][\A k \in Keys, value \in Values :
          (/\ last_op'.name = "slot_call"
           /\ last_op'.key = k
           /\ last_op'.value = value
           /\ barrier.crossed
           /\ ~barrier.stored_results[k].called)
          => (/\ raised' = ErrCallAfterCrossing
              /\ barrier'.crossed
              /\ barrier'.calls_pending = barrier.calls_pending
              /\ barrier'.stored_results[k].called
              /\ barrier'.stored_results[k].value = value
              /\ (GetResult(World, k))'.raised = NoError
              /\ (GetResult(World, k))'.returned = value
              /\ \A v \in Values :
                     /\ (StoredResultCall(World, k, v))'.raised = ErrDoubleWrite
                     /\ (StoredResultCall(World, k, v))'.bar = barrier')]_vars

\* The barrier crossed by a direct call in the place of slot "foo"; the slot
\* was then invoked with "7", which raised and left "7" in the slot.
C36_Witness ==
    /\ last_op.name = "slot_call"
    /\ last_op.key = "foo"
    /\ last_op.value = "7"
    /\ raised = ErrCallAfterCrossing
    /\ barrier.crossed
    /\ hist.slots = 1
    /\ hist.inc_total = 0
    /\ hist.invocations = 1
    /\ barrier.stored_results["foo"].called
    /\ barrier.stored_results["foo"].value = "7"
    /\ first_value["foo"] = Some("7")

\* C37: a wait() that blocked raises TimeoutError exactly if the callback has
\* not been invoked when the event loop has stopped: a wait() during which the
\* timer fired and before whose resumption the callback was invoked returns
\* normally.  The timeout handler runs at most once per blocker: it runs only
\* on an armed timer, discards the timer, and a discarded timer never returns.
C37_TimeoutErrorIffNotCalled ==
    /\ [](last_op.name = "blocker_wait_return" =>
              /\ IsTimeoutError(raised, blocker) <=> ~blocker.called
              /\ blocker.called => raised = NoError
              /\ (last_op.timer_fired /\ Count(stub_calls, "cb") >= 1)
                     => (raised = NoError /\ blocker.called))
    /\ [][/\ last_op'.name = "timer_fire"
                 => (blocker.timer = "active" /\ blocker'.timer = None)
          /\ blocker.timer = None => blocker'.timer = None]_vars

\* The timer fired, the callback was invoked before the wait() resumed, and
\* the wait() returned normally.
C37_Witness ==
    /\ last_op.name = "blocker_wait_return"
    /\ last_op.blocked
    /\ last_op.timer_fired
    /\ blocker.called
    /\ blocker.args = Some(<<"7">>)
    /\ blocker.timer = None
    /\ blocker.timeout # None
    /\ raised = NoError

(***************************************************************************)
(* Claims about the order of the notifications.                            *)
(***************************************************************************)
Observers == UNION {Range(ObserversOf(bridge)) : bridge \in Bridges} \cup Handlers

\* An emission of the signal reaches the observer.
Reaches(signal, observer) ==
    \E i \in DOMAIN widget.conn[signal] :
        LET target == widget.conn[signal][i]
        IN  IF target \in Bridges
            THEN observer \in Range(ObserversOf(target))
            ELSE observer = target

\* C38 as claimed: the notifications received by the slots are re-emitted in
\* the order in which the slots received them, each exactly once: the
\* emissions so far are those of the first invocations, in their order, the
\* timers of the later invocations are pending, and every observer has seen
\* the arguments of exactly the emitted notifications that reach it, in that
\* order.  Each slot leaves its emission to a single-shot timer of its own
\* and the code keeps no order among the timers: whether this holds is
\* decided by the order in which the event loop fires timers that are due
\* together.  Where any pending timer may fire next, as in SpecAsync, it does
\* not hold.
C38_EmittedInOrderOfDelivery ==
    LET n == Len(widget.emit_log)
        InSeen(observer) ==
            {i \in DOMAIN stub_calls : stub_calls[i].target = observer}
        InSent(observer) ==
            {id \in 1..n : Reaches(widget.slot_log[id].signal, observer)}
    IN  /\ n + Len(widget.timers) = Len(widget.slot_log)
        /\ \A i \in 1..n : widget.emit_log[i].id = i
        /\ \A i \in DOMAIN widget.timers : widget.timers[i].id = n + i
        /\ \A observer \in Observers :
               /\ Cardinality(InSeen(observer)) = Cardinality(InSent(observer))
               /\ \A i \in InSeen(observer) :
                      \E id \in InSent(observer) :
                          /\ Cardinality({j \in InSeen(observer) : j < i})
                               = Cardinality({k \in InSent(observer) : k < id})
                          /\ stub_calls[i].args
                               = ConvertArgs(widget.slot_log[id].signal,
                                             widget.slot_log[id].args)

(***************************************************************************)
(* Claims about setting a bridge again.                                    *)
(***************************************************************************)
\* How often the target is connected to the signal.
ConnectionsOf(signal, target) ==
    Cardinality({i \in DOMAIN widget.conn[signal] : widget.conn[signal][i] = target})

\* C39: set_events_bridge and set_error_bridge are idempotent for the same
\* bridge: however often a bridge is set, it is connected to each of the
\* widget's signals at most once, setting a bridge that is connected already
\* leaves exactly one connection to it, and an event emitted afterwards calls
\* every observer of a connected bridge exactly once.
C39_SettingTheSameBridgeAgain ==
    /\ [](\A signal \in Signals : \A bridge \in Bridges :
              ConnectionsOf(signal, bridge) <= 1)
    /\ [][/\ \A bridge \in Bridges :
                 (last_op'.name = "set_events_bridge" /\ last_op'.bridge = bridge)
                     => (\A i \in DOMAIN EventSignals :
                             /\ Len(widget'.conn[EventSignals[i]])
                                  = Cardinality(Range(widget.conn[EventSignals[i]]) \cup {bridge})
                             /\ (ConnectionsOf(EventSignals[i], bridge))' = 1)
          /\ \A bridge \in Bridges :
                 (last_op'.name = "set_error_bridge" /\ last_op'.bridge = bridge)
                     => (/\ Len(widget'.conn["on_error"])
                              = Cardinality(Range(widget.conn["on_error"]) \cup {bridge})
                         /\ (ConnectionsOf("on_error", bridge))' = 1)
          /\ \A signal \in Signals :
                 (last_op'.name = "emit" /\ last_op'.signal = signal /\ raised' = NoError)
                     => (\A bridge \in Range(widget.conn[signal]) \cap Bridges :
                             \A observer \in Range(ObserversOf(bridge)) :
                                 Cardinality({i \in (Len(stub_calls) + 1)..Len(stub_calls') :
                                                  stub_calls'[i].target = observer}) = 1)]_vars

\* The bridge b1 was set as error bridge and as events bridge, each more than
\* once; an error and, after the last of these calls, an event were emitted
\* and each reached the two observers of b1 once.
C39_Witness ==
    /\ hist.set_again = {"set_events_bridge", "set_error_bridge"}
    /\ last_op.name = "emit"
    /\ widget.conn["on_error"] = <<"b1">>
    /\ widget.conn["on_cells_added"] = <<"b1">>
    /\ Len(widget.emit_log) = 2
    /\ widget.emit_log[1].signal = "on_error"
    /\ widget.emit_log[2].signal = "on_cells_added"
    /\ widget.emit_log[1].calls = 2
    /\ widget.emit_log[2].calls = 2
    /\ Len(stub_calls) = 4

(***************************************************************************)
(* Claims about set_edge_terminal.                                         *)
(***************************************************************************)
\* The evaluations of the call that the engine has not yet answered.
InFlight(call) == Cardinality({i \in DOMAIN js_queue : js_queue[i].call = call})

\* C40 as claimed: set_edge_terminal with a terminal type other than source
\* and target raises ValueError before anything is sent: it submits no
\* evaluation and the result callback is never invoked; with a valid terminal
\* type it submits exactly one remote call.
C40_InvalidTerminalRaisesValidSubmitsOnce ==
    \A call \in DOMAIN calls :
        LET c == calls[call]
            terminal_type == c.args[2]
        IN  c.fn = "setEdgeTerminal" =>
                IF terminal_type \in {SOURCE_TERMINAL_CELL, TARGET_TERMINAL_CELL}
                THEN /\ c.raised = NoError
                     /\ c.submitted = <<"call">>
                     /\ c.sync = 0
                     /\ InFlight(call) + c.delivered = 1
                ELSE /\ c.raised = ErrTerminalType(terminal_type)
                     /\ c.submitted = <<>>
                     /\ c.sync = 0
                     /\ c.delivered = 0
                     /\ InFlight(call) = 0

\* The same without the debug flag.
C40_WithoutDebugFlag == debug \/ C40_InvalidTerminalRaisesValidSubmitsOnce

\* The guard of the terminal type alone, in both modes.
C40_InvalidTerminalRaises ==
    \A call \in DOMAIN calls :
        LET c == calls[call]
        IN  (c.fn = "setEdgeTerminal"
                 /\ c.args[2] \notin {SOURCE_TERMINAL_CELL, TARGET_TERMINAL_CELL})
                => (/\ c.raised = ErrTerminalType(c.args[2])
                    /\ c.submitted = <<>>
                    /\ c.sync = 0
                    /\ c.delivered = 0
                    /\ InFlight(call) = 0)

(***************************************************************************)
(* The handler methods of the api, called by the client.                   *)
(***************************************************************************)
\* A handler method called with callback and handler submits, without the
\* debug flag, one evaluation, the call, and returns the callback; with the
\* flag it raises the TypeError of is_loaded and submits nothing; with fewer
\* arguments it raises and submits nothing.  The slot becomes the page's
\* handler only when a loaded page has evaluated the call with the slot.
ApiHandlerCallsGoThroughCallApi ==
    /\ \A call \in DOMAIN calls :
           LET c == calls[call]
               given == Len(c.args)
               complete == IF c.fn = "resizeContainer" THEN given = 3 ELSE given = 2
           IN  /\ (complete /\ ~c.debug)
                      => (/\ c.raised = NoError
                          /\ c.returned = c.args[1]
                          /\ c.submitted = <<"call">>)
               /\ (complete /\ c.debug)
                      => (c.raised = ErrIsLoadedArguments /\ c.submitted = <<>>)
               /\ ~complete
                      => (/\ c.raised # NoError
                          /\ c.raised[1] = "TypeError"
                          /\ c.submitted = <<>>)
    /\ \A signal \in widget.registered :
           \E call \in DOMAIN calls : \E i \in DOMAIN HandlerMethods :
               /\ HandlerMethods[i].signal = signal
               /\ calls[call].fn = HandlerMethods[i].fn
               /\ calls[call].args = <<"stub1", HandlerMethods[i].slot>>
               /\ ~calls[call].debug
               /\ InFlight(call) = 0
               /\ loaded

\* The page has evaluated api.onCellsAdded with the slot of the bridge and
\* has since notified that cells were added: the slot was invoked.
ApiHandlerRegisteredAndNotified ==
    /\ "on_cells_added" \in widget.registered
    /\ Len(widget.slot_log) = 1
    /\ widget.slot_log[1].signal = "on_cells_added"

\* On the widget as it is, no slot is ever made a handler of the page by a
\* load, and loadFinished is never emitted with true.
LoadNeverRegisters ==
    /\ widget.registered = {}
    /\ \A i \in DOMAIN widget.load_finished : widget.load_finished[i] # "true"

\* blank() has returned and the web view has not yet reported the blank page
\* loaded: nothing was emitted and the graph page is still there.
BlankCalledNotYetFinished ==
    /\ last_op.name = "blank"
    /\ widget.blanking
    /\ widget.load_finished = <<>>
    /\ loaded
====
